---- MODULE Spec2Model ----
(***************************************************************************)
(* Model of the PC-side hardware tester of Wifi-for-STM32.                 *)
(*                                                                         *)
(* Spec: one test session of the Test Session Orchestrator, in its two     *)
(* source variants: the C++ one (PC/CPP/HardwareTester.cpp, with its       *)
(* Result Store PC/CPP/TestLogger.cpp) and the C one (PC/main.c), each     *)
(* with the UDP socket it shares with its listener threads, and the        *)
(* network as environment.  A behaviour is of one variant throughout.  The  *)
(* C++ process around the session is main of PC/CPP/main.cpp: connect,     *)
(* runTests, strLast, return.                                              *)
(*                                                                         *)
(* SpecRuns: C++ processes run one after another against the same          *)
(* database file, each a test invocation, a "get" or an "export".          *)
(*                                                                         *)
(* SpecRerun: Spec with a further call of runTests on the same C++ object. *)
(*                                                                         *)
(* SpecCodec: the filling of outMsg and its encoding by sendOutMsg, applied *)
(* to arguments drawn from bounded sets.                                   *)
(*                                                                         *)
(* SpecArgs: the option loop of main (PC/CPP/main.cpp 79-197, PC/main.c    *)
(* 202-436) over command lines of a few tokens, up to the call of the      *)
(* orchestrator.                                                           *)
(*                                                                         *)
(* SpecBridge: the ESP32 bridge (src/main.c): udp_server_task forwards the *)
(* command to the UART, rx_task forwards what the UART received as UDP     *)
(* datagrams; the UUT behind the UART is environment.                      *)
(*                                                                         *)
(* SpecSlots: Spec with the result datagrams carrying the session's id.    *)
(*                                                                         *)
(* SpecLive: one C++ session under fair scheduling and delivery.           *)
(*                                                                         *)
(* SpecWifi, SpecWifiLive: the ESP32 from app_main through wifi_init_sta   *)
(* and its event handler to the creation of the two tasks; SpecWifiLive    *)
(* adds fair scheduling and connect attempts that end.                     *)
(*                                                                         *)
(* SpecForward: the two tasks of the ESP32 and the sender address they     *)
(* share.                                                                  *)
(***************************************************************************)
EXTENDS Integers, Sequences, FiniteSets, TLC

(***************************************************************************)
(* Program constants                                                       *)
(***************************************************************************)
TEST_UART == 2
TEST_SPI == 4
TEST_I2C == 8
TEST_SUCCESS == 1
TEST_FAILED == 255
IN_MSG_SIZE == 6
HDR_SIZE == 7
N_TESTS == 3
\* sizeof(void *) of the two builds of the C variant: the size of its recv_buf
PTR_SIZE_32 == 4
PTR_SIZE_64 == 8

(***************************************************************************)
(* Bounds of the model                                                     *)
(***************************************************************************)
\* datagrams the socket's receive queue holds at a time
MaxSockQ == 1
\* SpecRuns: processes run one after another
MaxProcs == 3
\* SpecCodec: length of the short payload strings, each byte drawn freely
MaxShortLen == 3
\* SpecRerun: calls of runTests on one HardwareTester
MaxRuns == 2
\* SpecArgs: command-line tokens after the program name
MaxArgs == 3
\* SpecBridge: results the UUT writes to its UART for one command
MaxResults == 2

VARIABLES
    variant,     \* "cpp": PC/CPP/HardwareTester.cpp, "c": PC/main.c
    psize,       \* C variant: sizeof(in_msg), the size of a pointer in the build
    pc,          \* position of the calling thread ("idle": outside the session,
                 \* "exited": the process has called exit)
    flags,       \* argument flags / peripherals: the peripheral bitmask
    test_id,     \* the session's id: runTests local test_id, C out_msg.test_id
    outMsg,      \* outMsg / out_msg: test_id, peripheral, p_len
    inMsgs,      \* vector inMsgs / array in_msgs
    results,     \* vector results / array results
    n_threads,   \* number of listeners of the session
    threads,     \* vector / array threads, each with its listener's position
    waited,      \* C variant: sem_wait calls that have returned
    sem,         \* C variant: value of tests_done_sem
    joined,      \* number of threads the join loop has joined
    all_success, \* local all_success
    sockq,       \* datagrams waiting in the socket's receive queue
    sent,        \* command datagrams sendto transmitted in full
    db,          \* rows of table test_logs, in insertion order
    ret,         \* "none" before the session, "running" inside, then how it ended
    ses,         \* what the current session has done to its collaborators
    main,        \* the process: where main is, how opening the transport went,
                 \* the text it printed and how it ended
    hist,        \* SpecRuns: what each earlier process allocated and logged
    codec,       \* SpecCodec: the arguments, the datagram and what is read back
    cli,         \* SpecArgs: argv and the locals of main's option loop
    bridge,      \* SpecBridge: the ESP32 between the UART of the UUT and UDP
    wifi,        \* SpecWifi: the ESP32 from app_main to the creation of its tasks
    fwd          \* SpecForward: the two tasks of the ESP32 and the sender address

vars == <<variant, psize, pc, flags, test_id, outMsg, inMsgs, results, n_threads,
          threads, waited, sem, joined, all_success, sockq, sent, db, ret, ses,
          main, hist, codec, cli, bridge, wifi, fwd>>

(***************************************************************************)
(* Value sets                                                              *)
(***************************************************************************)
Peripherals == <<TEST_UART, TEST_SPI, TEST_I2C>>

\* masks built from the three peripheral bits, the empty mask included
Masks == {u + s + i : u \in {0, TEST_UART}, s \in {0, TEST_SPI}, i \in {0, TEST_I2C}}

\* outcome bytes: success, canonical failure, and one that is neither
ResBytes == {0, TEST_SUCCESS, TEST_FAILED}

\* test ids a result datagram may carry: the session's own and a foreign one
DgIds == {1, 2}

\* lengths of inbound datagrams: short, exact, long
DgLens == {IN_MSG_SIZE - 1, IN_MSG_SIZE, IN_MSG_SIZE + 1}

\* lengths of the payload string handed to runTests
SharedLens == {0}

\* the first IN_MSG_SIZE bytes a datagram of dlen bytes may start with: any id,
\* peripheral code and outcome for a 6-byte result; a result followed by extra
\* bytes is drawn with the success outcome; a short one is never looked at
FirstBytes(dlen) ==
    { [test_id |-> t, peripheral |-> p, test_result |-> r] :
        t \in DgIds, p \in {TEST_UART, TEST_SPI, TEST_I2C},
        r \in IF dlen = IN_MSG_SIZE THEN ResBytes
               ELSE IF dlen > IN_MSG_SIZE THEN {TEST_SUCCESS} ELSE {0} }

\* flags & bit
HasBit(f, bit) == (f \div bit) % 2 = 1

\* a value-initialized InMsg (vector::resize)
ZeroInMsg == [test_id |-> 0, peripheral |-> 0, test_result |-> 0]

\* (start: the number of sendto calls made when gettimeofday(&start) was
\* called, -1 while it has not been called)
NewSes ==
    [store |-> 0, sendto |-> 0, sendres |-> "none", recvs |-> 0, logs |-> 0,
     start |-> -1]


\* main before its first statement: the C++ main has yet to connect; the C
\* main opens its transport inside run_parallel_tests
NewMain(v) ==
    [at |-> IF v = "cpp" THEN "connect" ELSE "runTests",
     cmd |-> "test", arg |-> 0, conn |-> "none", text |-> [kind |-> "none"],
     exit |-> "none"]

\* ids a "get" command may ask for
LookupIds == {1, 2, 3}

\* bytes of a payload string: NUL and two others
PayloadBytes == {0, 65, 66}

\* lengths of the long payload strings: the largest a length byte holds, and beyond
LongLens == {255, 256, 257}

\* test ids whose little-endian bytes differ in one, two and four places
CodecIds == {1, 258, 16909060}

\* iteration counts
CodecIters == {1, 255}

\* strings of exactly n bytes
StringsOfLen(n) == [1..n -> PayloadBytes]

\* the payload strings handed to runTests: every short one, and long ones of one letter
SharedStrings ==
    UNION { StringsOfLen(n) : n \in 0..MaxShortLen }
    \cup { [i \in 1..n |-> 65] : n \in LongLens }

\* codec before SpecCodec has drawn arguments
NoCodec == [st |-> "off"]

\* cli outside SpecArgs
NoCli == [st |-> "off"]

\* bridge outside SpecBridge
NoBridge == [st |-> "off"]

\* wifi outside SpecWifi
NoWifi == [st |-> "off"]

\* fwd outside SpecForward
NoFwd == [st |-> "off"]
(***************************************************************************)
(* Result Store: TestLogger (C++); tests_db of the C variant               *)
(***************************************************************************)
RECURSIVE MaxTestId(_)
\* SELECT MAX(test_id) FROM test_logs, over a non-empty table
MaxTestId(rows) ==
    IF Len(rows) = 1 THEN rows[1].test_id
    ELSE LET m == MaxTestId(Tail(rows))
         IN IF rows[1].test_id > m THEN rows[1].test_id ELSE m

\* TestLogger::getNextId: 1 for an empty table, else MAX(test_id) + 1
\* (the ids of the rows of one session stay far below the width of uint32_t)
getNextId(rows) ==
    IF rows = <<>> THEN 1 ELSE MaxTestId(rows) + 1

\* logTest as it would be if it wrote the table anew (INSERT OR REPLACE on a
\* one-row table)
logTestReplace(rows, id, result) == <<[test_id |-> id, result |-> result]>>

\* TestLogger::logTest: INSERT one row
logTest(rows, id, result) ==
    Append(rows, [test_id |-> id, result |-> result])

\* tests_db get_next_id of the C variant: the next unused id
get_next_id(rows) ==
    IF rows = <<>> THEN 1 ELSE MaxTestId(rows) + 1

\* tests_db log_test of the C variant: record one completed run
log_test(rows, id, result) ==
    Append(rows, [test_id |-> id, result |-> result])

\* the rows SELECT ... WHERE test_id = ? goes through
Matching(rows, id) == SelectSeq(rows, LAMBDA r : r.test_id = id)

\* what sqlite3_step may return for that query: the first matching row, the end
\* of an empty result, or an error code
StepResults(rows, id) ==
    IF Matching(rows, id) # <<>> THEN {"SQLITE_ROW", "SQLITE_ERROR"}
                                ELSE {"SQLITE_DONE", "SQLITE_ERROR"}

\* strById as it would be if the query had no WHERE clause
strByIdNoWhere(rows, id, rc) ==
    IF rc # "SQLITE_ERROR" /\ rows # <<>>
       THEN [kind |-> "record", test_id |-> rows[1].test_id,
             result |-> IF rows[1].result THEN "Success" ELSE "Failure"]
       ELSE [kind |-> "no_record"]

\* TestLogger::strById once the statement is prepared: the rendering of the row
\* when rc == SQLITE_ROW, the "No test record found for this ID" text otherwise
strById(rows, id, rc) ==
    IF rc = "SQLITE_ROW"
       THEN [kind |-> "record",
             test_id |-> Matching(rows, id)[1].test_id,
             result |-> IF Matching(rows, id)[1].result THEN "Success" ELSE "Failure"]
       ELSE [kind |-> "no_record"]

RECURSIVE InsertById(_, _)
\* ORDER BY test_id ASC: r put into a sequence that is in that order
InsertById(sorted, r) ==
    IF sorted = <<>> THEN <<r>>
    ELSE IF r.test_id < sorted[1].test_id THEN <<r>> \o sorted
    ELSE <<sorted[1]>> \o InsertById(Tail(sorted), r)

RECURSIVE OrderById(_)
OrderById(rows) ==
    IF rows = <<>> THEN <<>>
    ELSE InsertById(OrderById(SubSeq(rows, 1, Len(rows) - 1)), rows[Len(rows)])

\* TestLogger::exportAll: the header line, then one line per row
exportAll(rows) == [kind |-> "csv", lines |-> OrderById(rows)]

\* HardwareTester::strLast, the text returned after the catch
GenericError == [kind |-> "error"]

(***************************************************************************)
(* Pure parts of the orchestrator                                          *)
(***************************************************************************)
\* runTests, the n_threads count
NThreads(f) ==
    (IF HasBit(f, TEST_UART) THEN 1 ELSE 0)
    + (IF HasBit(f, TEST_SPI) THEN 1 ELSE 0)
    + (IF HasBit(f, TEST_I2C) THEN 1 ELSE 0)

\* run_parallel_tests, the n_threads count (UART, I2C, SPI)
c_NThreads(f) ==
    (IF HasBit(f, TEST_UART) THEN 1 ELSE 0)
    + (IF HasBit(f, TEST_I2C) THEN 1 ELSE 0)
    + (IF HasBit(f, TEST_SPI) THEN 1 ELSE 0)

\* sendOutMsg / udp_send_data: the number of bytes put into buf
NBytes(msg) == HDR_SIZE + msg.p_len

\* sendOutMsg / udp_send_data: the datagram as the receiver sees it
Encode(msg) ==
    [test_id |-> msg.test_id, peripheral |-> msg.peripheral,
     p_len |-> msg.p_len, len |-> NBytes(msg)]

\* what sendto may return for n bytes: an error, fewer bytes, all bytes
SendtoResults(nBytes) == {-1, nBytes - 1, nBytes}

\* how a sendto result reads
SendRes(sentBytes, nBytes) ==
    IF sentBytes = nBytes THEN "full" ELSE IF sentBytes < 0 THEN "error" ELSE "short"

\* SendOk as it would be if only a sendto error were tested
SendOkErrorOnly(sentBytes, nBytes) == sentBytes >= 0

\* sendOutMsg: sendto(...) != (ssize_t)n_bytes is the failure test
SendOk(sentBytes, nBytes) == sentBytes = nBytes

\* c_SendOk as it would be without the test of the byte count
c_SendOkNoCount(sentBytes, nBytes) == ~(sentBytes < 0)

\* udp_send_data: sent_bytes < 0, then (size_t)sent_bytes != n_bytes, both exit
c_SendOk(sentBytes, nBytes) == ~(sentBytes < 0) /\ sentBytes = nBytes

\* IdCheck as it would be if the result of getNextTestId were ignored
IdCheckIgnored(ok) == "send"

\* runTests: where the caller goes with the result of getNextTestId
IdCheck(ok) == IF ok THEN "send" ELSE "idle"

\* run_parallel_tests: where it goes with the result of get_next_id
c_IdCheck(ok) == IF ok THEN "init" ELSE "exited"

\* what recvfrom returns for a datagram of dlen bytes read into a buffer of
\* bufsize bytes (the excess of a longer datagram is discarded)
RecvLen(dlen, bufsize) == IF dlen > bufsize THEN bufsize ELSE dlen

\* recvInMsg / udp_receive_data: n != IN_MSG_SIZE is the failure test
RecvOk(n) == n = IN_MSG_SIZE

\* recvInMsg / udp_receive_data: the InMsg parsed out of recv_buf
Parse(bytes) ==
    [test_id |-> bytes.test_id, peripheral |-> bytes.peripheral,
     test_result |-> bytes.test_result]

\* IsSuccess as it would be if everything but TEST_FAILED counted as success
IsSuccessNotFailed(byte) == IF byte # TEST_FAILED THEN 1 ELSE 0

\* results[idx] = (test_result == TEST_SUCCESS)
IsSuccess(byte) == IF byte = TEST_SUCCESS THEN 1 ELSE 0

RECURSIVE AllSuccessFrom(_, _)
\* the verdict loop: if (!r) all_success = 0;
AllSuccessFrom(res, acc) ==
    IF res = <<>> THEN acc
    ELSE AllSuccessFrom(Tail(res), IF res[1] = 0 THEN 0 ELSE acc)

\* AllSuccess as it would be if the loop assigned all_success = r
AllSuccessLast(res) == IF res = <<>> THEN 1 ELSE res[Len(res)]

\* int all_success = 1; followed by the loop over the slots
AllSuccess(res) == AllSuccessFrom(res, 1)

\* Joinable as it would be if join did not wait (a detached thread)
JoinableAny(t) == TRUE

\* t.join() / pthread_join returns once the thread has returned
Joinable(t) == t.st = "returned"

\* sem_wait returns once the semaphore is positive
SemAvailable(s) == s > 0

\* clear as it would be if it left the vector alone
clearNot(v) == v

\* std::vector::clear
clear(v) == <<>>

\* std::vector::resize(n): the first n elements kept, value-initialized
\* elements appended up to n
resize(v, n, zero) == [i \in 1..n |-> IF i <= Len(v) THEN v[i] ELSE zero]

\* NewThread as it would be if the listener returned without receiving
NewThreadSilent == [st |-> "returned", n |-> 0, dlen |-> 0, idx |-> 0]

\* a listener as it is started: about to call recvfrom
\* (n: what recvfrom returned; dlen: the length of the datagram it took;
\* idx: the slot index it was started with)
NewThread == [st |-> "recvfrom", n |-> 0, dlen |-> 0, idx |-> 0]

\* ThreadArg as it would be if every listener were started with index 0
ThreadArgFirst(i) == 0

\* the index handed to the listener started in iteration i of the loop:
\* emplace_back(&HardwareTester::recvInMsg, this, i); args->idx = i
ThreadArg(i) == i

(***************************************************************************)
(* Initial state.  C++: a constructed HardwareTester, as main creates one  *)
(* per process; outMsg has no initializer, so its test_id is               *)
(* indeterminate.  C: the zero-initialized globals.  The table is empty.   *)
(***************************************************************************)
Init ==
    /\ variant \in {"cpp", "c"}
    /\ psize \in IF variant = "c" THEN {PTR_SIZE_32, PTR_SIZE_64} ELSE {0}
    /\ pc = "idle"
    /\ flags = 0
    /\ test_id = 0
    /\ outMsg \in [test_id : IF variant = "cpp" THEN {0, 1} ELSE {0},
                   peripheral : {0}, p_len : {0}]
    /\ inMsgs = IF variant = "cpp" THEN <<>> ELSE [i \in 1..N_TESTS |-> ZeroInMsg]
    /\ results = IF variant = "cpp" THEN <<>> ELSE [i \in 1..N_TESTS |-> 0]
    /\ n_threads = 0
    /\ threads = <<>>
    /\ waited = 0
    /\ sem = 0
    /\ joined = 0
    /\ all_success = 0
    /\ sockq = <<>>
    /\ sent = <<>>
    /\ db = <<>>
    /\ ret = "none"
    /\ ses = NewSes
    /\ main = NewMain(variant)
    /\ hist = <<>>
    /\ codec = NoCodec
    /\ cli = NoCli
    /\ bridge = NoBridge
    /\ wifi = NoWifi
    /\ fwd = NoFwd

(***************************************************************************)
(* C++: runTests, the calling thread                                       *)
(***************************************************************************)
\* lines 84-93: entry, the three clear() calls and the filling of outMsg
runTestsEnter ==
    /\ variant = "cpp"
    /\ main.at = "runTests"
    /\ pc = "idle"
    /\ ret = "none"
    /\ \E f \in Masks, sharedLen \in SharedLens :
         /\ flags' = f
         /\ outMsg' = [outMsg EXCEPT !.peripheral = f, !.p_len = sharedLen % 256]
    /\ inMsgs' = clear(inMsgs)
    /\ results' = clear(results)
    /\ threads' = clear(threads)
    /\ ret' = "running"
    /\ ses' = NewSes
    /\ pc' = "getid"
    /\ UNCHANGED <<variant, psize, test_id, n_threads, waited, sem, joined, all_success,
                    sockq, sent, db, main, hist, codec, cli, bridge, wifi, fwd>>

\* lines 95-104 with getNextTestId (231-252): prep(), then getNextId(); with
\* an id, gettimeofday(&start) follows at once
getNextTestId ==
    /\ variant = "cpp"
    /\ pc = "getid"
    /\ \E prepOk \in BOOLEAN, stepOk \in BOOLEAN :
         LET ok == prepOk /\ stepOk
             calls == IF prepOk THEN 2 ELSE 1
         IN /\ test_id' = IF ok THEN getNextId(db) ELSE test_id
            /\ outMsg' = IF ok THEN [outMsg EXCEPT !.test_id = getNextId(db)] ELSE outMsg
            /\ ret' = IF ok THEN ret ELSE "no_id"
            /\ ses' = [ses EXCEPT !.store = @ + calls,
                                  !.start = IF ok THEN ses.sendto ELSE @]
            /\ pc' = IdCheck(ok)
    /\ UNCHANGED <<variant, psize, flags, inMsgs, results, n_threads, threads, waited,
                    sem, joined, all_success, sockq, sent, db, main, hist, codec, cli,
                    bridge, wifi, fwd>>

\* line 106 with sendOutMsg (171-193): sendto may transmit all bytes, fewer, or
\* fail; on failure the runtime_error leaves runTests
sendOutMsg ==
    /\ variant = "cpp"
    /\ pc = "send"
    /\ \E sentBytes \in SendtoResults(NBytes(outMsg)) :
         LET ok == SendOk(sentBytes, NBytes(outMsg))
         IN /\ sent' = IF sentBytes = NBytes(outMsg) THEN Append(sent, Encode(outMsg))
                                                      ELSE sent
            /\ ses' = [ses EXCEPT !.sendto = @ + 1,
                                  !.sendres = SendRes(sentBytes, NBytes(outMsg))]
            /\ ret' = IF ok THEN ret ELSE "send_failed"
            /\ pc' = IF ok THEN "resize" ELSE "idle"
    /\ UNCHANGED <<variant, psize, flags, test_id, outMsg, inMsgs, results, n_threads,
                    threads, waited, sem, joined, all_success, sockq, db, main, hist,
                    codec, cli, bridge, wifi, fwd>>

\* lines 108-114: count the listeners, resize both vectors
resizeSlots ==
    /\ variant = "cpp"
    /\ pc = "resize"
    /\ n_threads' = NThreads(flags)
    /\ inMsgs' = resize(inMsgs, NThreads(flags), ZeroInMsg)
    /\ results' = resize(results, NThreads(flags), 0)
    /\ pc' = "spawn"
    /\ UNCHANGED <<variant, psize, flags, test_id, outMsg, threads, waited, sem, joined,
                    all_success, sockq, sent, db, ret, ses, main, hist, codec, cli,
                    bridge, wifi, fwd>>

\* lines 116-118: one emplace_back per iteration
spawnThread ==
    /\ variant = "cpp"
    /\ pc = "spawn"
    /\ IF Len(threads) < n_threads
          THEN /\ threads' = Append(threads,
                                     [NewThread EXCEPT !.idx = ThreadArg(Len(threads))])
               /\ pc' = pc
          ELSE /\ threads' = threads
               /\ pc' = "join"
    /\ UNCHANGED <<variant, psize, flags, test_id, outMsg, inMsgs, results, n_threads,
                    waited, sem, joined, all_success, sockq, sent, db, ret, ses, main,
                    hist, codec, cli, bridge, wifi, fwd>>

\* line 120: the join loop, one t.join() per step
joinThread ==
    /\ variant = "cpp"
    /\ pc = "join"
    /\ IF joined < Len(threads)
          THEN /\ Joinable(threads[joined + 1])
               /\ joined' = joined + 1
               /\ pc' = pc
          ELSE /\ joined' = joined
               /\ pc' = "verdict"
    /\ UNCHANGED <<variant, psize, flags, test_id, outMsg, inMsgs, results, n_threads,
                    threads, waited, sem, all_success, sockq, sent, db, ret, ses, main,
                    hist, codec, cli, bridge, wifi, fwd>>

\* computeVerdict as it would be if the loop took the outcomes out of the slots
computeVerdictConsuming ==
    /\ variant = "cpp"
    /\ pc = "verdict"
    /\ all_success' = AllSuccess(results)
    /\ results' = [i \in 1..Len(results) |-> 0]
    /\ pc' = "log"
    /\ UNCHANGED <<variant, psize, flags, test_id, outMsg, inMsgs, n_threads, threads,
                    waited, sem, joined, sockq, sent, db, ret, ses, main, hist, codec,
                    cli, bridge, wifi, fwd>>

\* lines 127-128
computeVerdict ==
    /\ variant = "cpp"
    /\ pc = "verdict"
    /\ all_success' = AllSuccess(results)
    /\ pc' = "log"
    /\ UNCHANGED <<variant, psize, flags, test_id, outMsg, inMsgs, results, n_threads,
                    threads, waited, sem, joined, sockq, sent, db, ret, ses, main, hist,
                    codec, cli, bridge, wifi, fwd>>

\* lines 130-138: prep() then logTest(); either may throw, which is caught
persist ==
    /\ variant = "cpp"
    /\ pc = "log"
    /\ \E prepOk \in BOOLEAN, stepOk \in BOOLEAN :
         LET ok == prepOk /\ stepOk
             calls == IF prepOk THEN 2 ELSE 1
         IN /\ db' = IF ok THEN logTest(db, test_id, all_success # 0) ELSE db
            /\ ret' = IF ok THEN "logged" ELSE "log_failed"
            /\ ses' = [ses EXCEPT !.store = @ + calls,
                                  !.logs = IF ok THEN @ + 1 ELSE @]
    /\ pc' = "idle"
    /\ UNCHANGED <<variant, psize, flags, test_id, outMsg, inMsgs, results, n_threads,
                    threads, waited, sem, joined, all_success, sockq, sent, main, hist,
                    codec, cli, bridge, wifi, fwd>>

(***************************************************************************)
(* C++: main around the session (main.cpp 175-197)                         *)
(***************************************************************************)
\* HardwareTester::connect (49-72) and main 175-180: socket, then
\* gethostbyname; main returns NETWORK_ERROR when connect returns false
connect ==
    /\ variant = "cpp"
    /\ main.at = "connect"
    /\ \E sockOk \in BOOLEAN, hostOk \in BOOLEAN :
         main' = IF ~sockOk
                    THEN [main EXCEPT !.conn = "socket_failed", !.at = "done",
                                      !.exit = "NETWORK_ERROR"]
                 ELSE IF ~hostOk
                    THEN [main EXCEPT !.conn = "host_failed", !.at = "done",
                                      !.exit = "NETWORK_ERROR"]
                 ELSE [main EXCEPT !.conn = "ok", !.at = "runTests"]
    /\ UNCHANGED <<variant, psize, pc, flags, test_id, outMsg, inMsgs, results,
                    n_threads, threads, waited, sem, joined, all_success, sockq, sent,
                    db, ret, ses, hist, codec, cli, bridge, wifi, fwd>>

\* main 195-197 with HardwareTester::strLast (148-161): runTests has returned;
\* prep(), strById(outMsg.test_id), the generic text when either throws; main
\* prints the text and returns EXIT_SUCCESS
strLast ==
    /\ variant = "cpp"
    /\ main.at = "runTests"
    /\ pc = "idle"
    /\ ret \in {"logged", "log_failed", "no_id"}
    /\ \E prepOk \in BOOLEAN, openOk \in BOOLEAN,
          rc \in StepResults(db, outMsg.test_id) :
         main' = [main EXCEPT
                    !.text = IF prepOk /\ openOk THEN strById(db, outMsg.test_id, rc)
                                                 ELSE GenericError,
                    !.at = "done",
                    !.exit = "EXIT_SUCCESS"]
    /\ UNCHANGED <<variant, psize, pc, flags, test_id, outMsg, inMsgs, results,
                    n_threads, threads, waited, sem, joined, all_success, sockq, sent,
                    db, ret, ses, hist, codec, cli, bridge, wifi, fwd>>

\* main 194: the runtime_error of sendOutMsg is caught nowhere, so
\* std::terminate ends the process with SIGABRT
terminate ==
    /\ variant = "cpp"
    /\ main.at = "runTests"
    /\ pc = "idle"
    /\ ret = "send_failed"
    /\ main' = [main EXCEPT !.at = "done", !.exit = "SIGABRT"]
    /\ UNCHANGED <<variant, psize, pc, flags, test_id, outMsg, inMsgs, results,
                    n_threads, threads, waited, sem, joined, all_success, sockq, sent,
                    db, ret, ses, hist, codec, cli, bridge, wifi, fwd>>

\* what the call of runTests gives its caller: runTests is void, and lines 99,
\* 137 and 139 return alike; only the runtime_error of sendOutMsg passes through
RunResult(r) == IF r = "send_failed" THEN "runtime_error" ELSE "void"

(***************************************************************************)
(* C++: recvInMsg, one listener thread.  Everything after recvfrom touches *)
(* only the thread's locals and its own slot, so one step takes the        *)
(* listener from the return of recvfrom to its own return.                 *)
(***************************************************************************)
\* AfterRecv as it would be if the listener called recvfrom again after a
\* receive of the wrong length
AfterRecvRetry(i, n, dlen, bytes) ==
    /\ threads' = [threads EXCEPT ![i] = [@ EXCEPT !.st = IF RecvOk(n) THEN "returned"
                                                                     ELSE "recvfrom",
                                                  !.n = n, !.dlen = dlen]]
    /\ IF RecvOk(n)
          THEN /\ inMsgs' = [inMsgs EXCEPT ![threads[i].idx + 1] = Parse(bytes)]
               /\ results' = [results EXCEPT ![threads[i].idx + 1] =
                                               IsSuccess(Parse(bytes).test_result)]
          ELSE UNCHANGED <<inMsgs, results>>

\* lines 209-219: the thread and its slot after recvfrom returned n
AfterRecv(i, n, dlen, bytes) ==
    /\ threads' = [threads EXCEPT ![i] = [@ EXCEPT !.st = "returned", !.n = n,
                                                  !.dlen = dlen]]
    /\ IF RecvOk(n)
          THEN /\ inMsgs' = [inMsgs EXCEPT ![threads[i].idx + 1] = Parse(bytes)]
               /\ results' = [results EXCEPT ![threads[i].idx + 1] =
                                               IsSuccess(Parse(bytes).test_result)]
          ELSE UNCHANGED <<inMsgs, results>>

\* lines 202-220: recvfrom takes the datagram at the head of the queue; the
\* bytes of a datagram are first looked at here, so they are drawn here
recvInMsg(i) ==
    /\ variant = "cpp"
    /\ i \in 1..Len(threads)
    /\ threads[i].st = "recvfrom"
    /\ sockq # <<>>
    /\ \E bytes \in FirstBytes(Head(sockq)) :
         AfterRecv(i, RecvLen(Head(sockq), IN_MSG_SIZE), Head(sockq), bytes)
    /\ sockq' = Tail(sockq)
    /\ ses' = [ses EXCEPT !.recvs = @ + 1]
    /\ UNCHANGED <<variant, psize, pc, flags, test_id, outMsg, n_threads, waited, sem,
                    joined, all_success, sent, db, ret, main, hist, codec, cli, bridge,
                    wifi, fwd>>

\* lines 208-212: recvfrom fails and returns -1, no datagram taken
recvInMsgError(i) ==
    /\ variant = "cpp"
    /\ i \in 1..Len(threads)
    /\ threads[i].st = "recvfrom"
    /\ AfterRecv(i, -1, 0, ZeroInMsg)
    /\ ses' = [ses EXCEPT !.recvs = @ + 1]
    /\ UNCHANGED <<variant, psize, pc, flags, test_id, outMsg, n_threads, waited, sem,
                    joined, all_success, sockq, sent, db, ret, main, hist, codec, cli,
                    bridge, wifi, fwd>>

(***************************************************************************)
(* C: run_parallel_tests, the main thread                                  *)
(***************************************************************************)
\* line 483: the call, with the mask the caller built
run_parallel_tests ==
    /\ variant = "c"
    /\ pc = "idle"
    /\ ret = "none"
    /\ \E f \in Masks : flags' = f
    /\ ret' = "running"
    /\ ses' = NewSes
    /\ pc' = "getid"
    /\ UNCHANGED <<variant, psize, test_id, outMsg, inMsgs, results, n_threads, threads,
                    waited, sem, joined, all_success, sockq, sent, db, main, hist, codec,
                    cli, bridge, wifi, fwd>>

\* lines 485-490: get_next_id, exit(SQLITE_ERROR) when it fails
c_getNextId ==
    /\ variant = "c"
    /\ pc = "getid"
    /\ \E ok \in BOOLEAN :
         /\ test_id' = IF ok THEN get_next_id(db) ELSE test_id
         /\ outMsg' = IF ok THEN [outMsg EXCEPT !.test_id = get_next_id(db)] ELSE outMsg
         /\ ret' = IF ok THEN ret ELSE "no_id"
         /\ pc' = c_IdCheck(ok)
    /\ ses' = [ses EXCEPT !.store = @ + 1]
    /\ UNCHANGED <<variant, psize, flags, inMsgs, results, n_threads, threads, waited,
                    sem, joined, all_success, sockq, sent, db, main, hist, codec, cli,
                    bridge, wifi, fwd>>

\* lines 492-511: fill out_msg, udp_init_network (570-584), init_db (exit when
\* it fails), count the listeners, gettimeofday(&start_time).  udp_init_network exits when socket fails;
\* it does not test the result of gethostbyname, so after a failed resolution
\* line 582 reads through a null pointer: the process is killed there, or
\* goes on with whatever address the read produced
c_init ==
    /\ variant = "c"
    /\ pc = "init"
    /\ \E sharedLen \in SharedLens, sockOk \in BOOLEAN, hostOk \in BOOLEAN,
          survives \in BOOLEAN, dbOk \in BOOLEAN :
         LET opened == sockOk /\ (hostOk \/ survives)
             goesOn == opened /\ dbOk
         IN /\ main' = [main EXCEPT !.conn = IF ~hostOk THEN "host_failed"
                                              ELSE IF ~sockOk THEN "socket_failed"
                                              ELSE "ok"]
            /\ outMsg' = [outMsg EXCEPT !.p_len = sharedLen % 256,
                                        !.peripheral = IF goesOn THEN flags ELSE @]
            /\ ses' = [ses EXCEPT !.store = IF opened THEN @ + 1 ELSE @,
                                  !.start = IF goesOn THEN ses.sendto ELSE @]
            /\ n_threads' = IF goesOn THEN c_NThreads(flags) ELSE n_threads
            /\ ret' = IF goesOn THEN ret
                      ELSE IF sockOk /\ ~opened THEN "crashed"
                      ELSE "init_failed"
            /\ pc' = IF goesOn THEN "send" ELSE "exited"
    /\ UNCHANGED <<variant, psize, flags, test_id, inMsgs, results, threads, waited, sem,
                    joined, all_success, sockq, sent, db, hist, codec, cli, bridge, wifi,
                    fwd>>

\* lines 513-514 with udp_send_data (586-618): exit(UDP_ERROR) on an error
\* and on an incomplete transmission
c_send ==
    /\ variant = "c"
    /\ pc = "send"
    /\ \E sentBytes \in SendtoResults(NBytes(outMsg)) :
         LET ok == c_SendOk(sentBytes, NBytes(outMsg))
         IN /\ sent' = IF sentBytes = NBytes(outMsg) THEN Append(sent, Encode(outMsg))
                                                      ELSE sent
            /\ ses' = [ses EXCEPT !.sendto = @ + 1,
                                  !.sendres = SendRes(sentBytes, NBytes(outMsg))]
            /\ ret' = IF ok THEN ret ELSE "send_failed"
            /\ pc' = IF ok THEN "seminit" ELSE "exited"
    /\ UNCHANGED <<variant, psize, flags, test_id, outMsg, inMsgs, results, n_threads,
                    threads, waited, sem, joined, all_success, sockq, db, main, hist,
                    codec, cli, bridge, wifi, fwd>>

\* line 516: sem_init(&tests_done_sem, 0, 0)
c_semInit ==
    /\ variant = "c"
    /\ pc = "seminit"
    /\ sem' = 0
    /\ pc' = "spawn"
    /\ UNCHANGED <<variant, psize, flags, test_id, outMsg, inMsgs, results, n_threads,
                    threads, waited, joined, all_success, sockq, sent, db, ret, ses,
                    main, hist, codec, cli, bridge, wifi, fwd>>

\* lines 517-523: one pthread_create per iteration, thread i given slot i
c_spawn ==
    /\ variant = "c"
    /\ pc = "spawn"
    /\ IF Len(threads) < n_threads
          THEN /\ threads' = Append(threads,
                                     [NewThread EXCEPT !.idx = ThreadArg(Len(threads))])
               /\ pc' = pc
          ELSE /\ threads' = threads
               /\ pc' = "wait"
    /\ UNCHANGED <<variant, psize, flags, test_id, outMsg, inMsgs, results, n_threads,
                    waited, sem, joined, all_success, sockq, sent, db, ret, ses, main,
                    hist, codec, cli, bridge, wifi, fwd>>

\* lines 525-526: n_threads times sem_wait
c_wait ==
    /\ variant = "c"
    /\ pc = "wait"
    /\ IF waited < n_threads
          THEN /\ SemAvailable(sem)
               /\ sem' = sem - 1
               /\ waited' = waited + 1
               /\ pc' = pc
          ELSE /\ UNCHANGED <<sem, waited>>
               /\ pc' = "join"
    /\ UNCHANGED <<variant, psize, flags, test_id, outMsg, inMsgs, results, n_threads,
                    threads, joined, all_success, sockq, sent, db, ret, ses, main, hist,
                    codec, cli, bridge, wifi, fwd>>

\* lines 528-529: n_threads times pthread_join
c_join ==
    /\ variant = "c"
    /\ pc = "join"
    /\ IF joined < n_threads
          THEN /\ Joinable(threads[joined + 1])
               /\ joined' = joined + 1
               /\ pc' = pc
          ELSE /\ joined' = joined
               /\ pc' = "verdict"
    /\ UNCHANGED <<variant, psize, flags, test_id, outMsg, inMsgs, results, n_threads,
                    threads, waited, sem, all_success, sockq, sent, db, ret, ses, main,
                    hist, codec, cli, bridge, wifi, fwd>>

\* lines 537-544: the verdict over results[0 .. n_threads-1]
c_verdict ==
    /\ variant = "c"
    /\ pc = "verdict"
    /\ all_success' = AllSuccess(SubSeq(results, 1, n_threads))
    /\ pc' = "log"
    /\ UNCHANGED <<variant, psize, flags, test_id, outMsg, inMsgs, results, n_threads,
                    threads, waited, sem, joined, sockq, sent, db, ret, ses, main, hist,
                    codec, cli, bridge, wifi, fwd>>

\* lines 546-556: log_test, exit(SQLITE_ERROR) when it fails; else print, return
c_log ==
    /\ variant = "c"
    /\ pc = "log"
    /\ \E ok \in BOOLEAN :
         /\ db' = IF ok THEN log_test(db, test_id, all_success # 0) ELSE db
         /\ ret' = IF ok THEN "logged" ELSE "log_failed"
         /\ ses' = [ses EXCEPT !.store = @ + 1, !.logs = IF ok THEN @ + 1 ELSE @]
         /\ pc' = IF ok THEN "idle" ELSE "exited"
    /\ UNCHANGED <<variant, psize, flags, test_id, outMsg, inMsgs, results, n_threads,
                    threads, waited, sem, joined, all_success, sockq, sent, main, hist,
                    codec, cli, bridge, wifi, fwd>>

(***************************************************************************)
(* C: recv_thread with udp_receive_data, one listener thread.  One step    *)
(* takes it from the return of recvfrom through sem_post to its return.    *)
(***************************************************************************)
\* main.c 626-646, 476-477: after recvfrom returned n: exit(UDP_ERROR) of the
\* whole process, or parse, store the slot and post the semaphore
c_AfterRecv(i, n, dlen, bytes) ==
    IF n >= 0 /\ RecvOk(n)
       THEN /\ threads' = [threads EXCEPT ![i] =
                             [@ EXCEPT !.st = "returned", !.n = n, !.dlen = dlen]]
            /\ inMsgs' = [inMsgs EXCEPT ![threads[i].idx + 1] = Parse(bytes)]
            /\ results' = [results EXCEPT ![threads[i].idx + 1] =
                                            IsSuccess(Parse(bytes).test_result)]
            /\ sem' = sem + 1
            /\ UNCHANGED <<pc, ret>>
       ELSE /\ threads' = [threads EXCEPT ![i] =
                             [@ EXCEPT !.st = "exit", !.n = n, !.dlen = dlen]]
            /\ pc' = "exited"
            /\ ret' = "recv_failed"
            /\ UNCHANGED <<inMsgs, results, sem>>

\* recvfrom into recv_buf[sizeof(in_msg)] takes the datagram at the head of the queue
recv_thread(i) ==
    /\ variant = "c"
    /\ pc # "exited"
    /\ i \in 1..Len(threads)
    /\ threads[i].st = "recvfrom"
    /\ sockq # <<>>
    /\ \E bytes \in FirstBytes(Head(sockq)) :
         c_AfterRecv(i, RecvLen(Head(sockq), psize), Head(sockq), bytes)
    /\ sockq' = Tail(sockq)
    /\ ses' = [ses EXCEPT !.recvs = @ + 1]
    /\ UNCHANGED <<variant, psize, flags, test_id, outMsg, n_threads, waited, joined,
                    all_success, sent, db, main, hist, codec, cli, bridge, wifi, fwd>>

\* recvfrom fails and returns -1, no datagram taken
recv_threadError(i) ==
    /\ variant = "c"
    /\ pc # "exited"
    /\ i \in 1..Len(threads)
    /\ threads[i].st = "recvfrom"
    /\ c_AfterRecv(i, -1, 0, ZeroInMsg)
    /\ ses' = [ses EXCEPT !.recvs = @ + 1]
    /\ UNCHANGED <<variant, psize, flags, test_id, outMsg, n_threads, waited, joined,
                    all_success, sockq, sent, db, main, hist, codec, cli, bridge, wifi,
                    fwd>>

(***************************************************************************)
(* The network: while the session runs, a datagram of some length arrives  *)
(* at the socket, which has a local port once sendto was called on it.     *)
(***************************************************************************)
Deliver ==
    /\ sent # <<>>
    /\ ret = "running"
    /\ Len(sockq) < MaxSockQ
    /\ \E l \in DgLens : sockq' = Append(sockq, l)
    /\ UNCHANGED <<variant, psize, pc, flags, test_id, outMsg, inMsgs, results,
                    n_threads, threads, waited, sem, joined, all_success, sent, db, ret,
                    ses, main, hist, codec, cli, bridge, wifi, fwd>>

Next ==
    \/ runTestsEnter
    \/ getNextTestId
    \/ sendOutMsg
    \/ resizeSlots
    \/ spawnThread
    \/ joinThread
    \/ computeVerdict
    \/ persist
    \/ \E i \in 1..N_TESTS : recvInMsg(i)
    \/ \E i \in 1..N_TESTS : recvInMsgError(i)
    \/ connect
    \/ run_parallel_tests
    \/ c_getNextId
    \/ c_init
    \/ c_send
    \/ c_semInit
    \/ c_spawn
    \/ c_wait
    \/ c_join
    \/ c_verdict
    \/ c_log
    \/ \E i \in 1..N_TESTS : recv_thread(i)
    \/ \E i \in 1..N_TESTS : recv_threadError(i)
    \/ Deliver

Spec == Init /\ [][Next]_vars

(***************************************************************************)
(* SpecRuns: C++ processes one after another on the same database file     *)
(* (TestLogger.cpp 10-21: $HOME/HW_tester/records.db).  Besides a test     *)
(* invocation, main serves "get <id>" and "export".                        *)
(***************************************************************************)
\* the masks the test invocations of SpecRuns are started with
RunsMasks == {0, TEST_UART}

\* main 28-52, "get" with one id: prep (DB_ERROR when it throws), then
\* strById, whose runtime_error is caught nowhere
mainGet ==
    /\ variant = "cpp"
    /\ main.at = "connect"
    /\ \E id \in LookupIds, prepOk \in BOOLEAN, openOk \in BOOLEAN :
       \E rc \in StepResults(db, id) :
         main' = IF ~prepOk
                    THEN [main EXCEPT !.at = "done", !.cmd = "get", !.arg = id,
                                      !.exit = "DB_ERROR"]
                 ELSE IF ~openOk
                    THEN [main EXCEPT !.at = "done", !.cmd = "get", !.arg = id,
                                      !.exit = "SIGABRT"]
                 ELSE [main EXCEPT !.at = "done", !.cmd = "get", !.arg = id,
                                   !.text = strById(db, id, rc),
                                   !.exit = "EXIT_SUCCESS"]
    /\ UNCHANGED <<variant, psize, pc, flags, test_id, outMsg, inMsgs, results,
                    n_threads, threads, waited, sem, joined, all_success, sockq, sent,
                    db, ret, ses, hist, codec, cli, bridge, wifi, fwd>>

\* main 54-75, "export": prep (DB_ERROR when it throws), then exportAll, whose
\* runtime_error is caught nowhere
mainExport ==
    /\ variant = "cpp"
    /\ main.at = "connect"
    /\ \E prepOk \in BOOLEAN, readOk \in BOOLEAN :
         main' = IF ~prepOk
                    THEN [main EXCEPT !.at = "done", !.cmd = "export",
                                      !.exit = "DB_ERROR"]
                 ELSE IF ~readOk
                    THEN [main EXCEPT !.at = "done", !.cmd = "export",
                                      !.exit = "SIGABRT"]
                 ELSE [main EXCEPT !.at = "done", !.cmd = "export",
                                   !.text = exportAll(db),
                                   !.exit = "EXIT_SUCCESS"]
    /\ UNCHANGED <<variant, psize, pc, flags, test_id, outMsg, inMsgs, results,
                    n_threads, threads, waited, sem, joined, all_success, sockq, sent,
                    db, ret, ses, hist, codec, cli, bridge, wifi, fwd>>

\* whether the process that has ended took an id from getNextId
TookId == ret \in {"logged", "log_failed", "send_failed"}

\* the next process: a new HardwareTester and a new TestLogger on the same
\* file; hist keeps what the process that ended took and logged
NewProcess ==
    /\ variant = "cpp"
    /\ main.at = "done"
    /\ Len(hist) + 1 < MaxProcs
    /\ hist' = Append(hist, [id |-> IF TookId THEN test_id ELSE 0,
                             logged |-> ret = "logged",
                             result |-> all_success # 0])
    /\ pc' = "idle"
    /\ flags' = 0
    /\ test_id' = 0
    /\ outMsg' \in [test_id : {0, 1}, peripheral : {0}, p_len : {0}]
    /\ inMsgs' = <<>>
    /\ results' = <<>>
    /\ n_threads' = 0
    /\ threads' = <<>>
    /\ waited' = 0
    /\ sem' = 0
    /\ joined' = 0
    /\ all_success' = 0
    /\ sockq' = <<>>
    /\ sent' = <<>>
    /\ ret' = "none"
    /\ ses' = NewSes
    /\ main' = NewMain(variant)
    /\ UNCHANGED <<variant, psize, db, codec, cli, bridge, wifi, fwd>>

InitRuns == Init /\ variant = "cpp"

NextRuns ==
    \/ connect
    \/ (runTestsEnter /\ flags' \in RunsMasks)
    \/ getNextTestId
    \/ sendOutMsg
    \/ resizeSlots
    \/ spawnThread
    \/ joinThread
    \/ computeVerdict
    \/ persist
    \/ \E i \in 1..N_TESTS : recvInMsg(i)
    \/ \E i \in 1..N_TESTS : recvInMsgError(i)
    \/ Deliver
    \/ strLast
    \/ terminate
    \/ mainGet
    \/ mainExport
    \/ NewProcess

SpecRuns == InitRuns /\ [][NextRuns]_vars

(***************************************************************************)
(* SpecRerun: sessions as in Spec, and in the C++ variant a further call   *)
(* of runTests on the same HardwareTester (runTests is public, the         *)
(* vectors, outMsg and the socket live as long as the object), with       *)
(* strLast after the last call.  The C variant's run_parallel_tests is     *)
(* static and called once by main.                                         *)
(***************************************************************************)
\* the masks the sessions of SpecRerun are started with
RerunMasks == {TEST_UART, TEST_UART + TEST_SPI}

\* the result datagrams of SpecRerun answer for UART under id 1
RerunInput(msgs) ==
    \A j \in 1..Len(msgs) :
       msgs[j].test_id \in {0, 1} /\ msgs[j].peripheral \in {0, TEST_UART}

\* runTests has returned to its caller (lines 99, 137, 139), which is about
\* to call it again: the locals of the call are gone, the members of the
\* object and the socket with what it holds stay; hist keeps what the call
\* that returned took and logged
callAgain ==
    /\ variant = "cpp"
    /\ main.at = "runTests"
    /\ pc = "idle"
    /\ ret \in {"logged", "log_failed", "no_id"}
    /\ Len(hist) + 1 < MaxRuns
    /\ hist' = Append(hist, [id |-> IF TookId THEN test_id ELSE 0,
                             logged |-> ret = "logged",
                             result |-> all_success # 0])
    /\ test_id' = 0
    /\ n_threads' = 0
    /\ joined' = 0
    /\ all_success' = 0
    /\ ret' = "none"
    /\ ses' = NewSes
    /\ UNCHANGED <<variant, psize, pc, flags, outMsg, inMsgs, results, threads, waited,
                    sem, sockq, sent, db, main, codec, cli, bridge, wifi, fwd>>

NextRerun ==
    \/ connect
    \/ (runTestsEnter /\ flags' \in RerunMasks)
    \/ getNextTestId
    \/ sendOutMsg
    \/ resizeSlots
    \/ spawnThread
    \/ joinThread
    \/ computeVerdict
    \/ persist
    \/ \E i \in 1..N_TESTS : recvInMsg(i) /\ RerunInput(inMsgs')
    \/ \E i \in 1..N_TESTS : recvInMsgError(i)
    \/ callAgain
    \/ strLast
    \/ (run_parallel_tests /\ flags' \in RerunMasks)
    \/ c_getNextId
    \/ c_init
    \/ c_send
    \/ c_semInit
    \/ c_spawn
    \/ c_wait
    \/ c_join
    \/ c_verdict
    \/ c_log
    \/ \E i \in 1..N_TESTS : recv_thread(i) /\ RerunInput(inMsgs')
    \/ \E i \in 1..N_TESTS : recv_threadError(i)
    \/ Deliver

SpecRerun == Init /\ [][NextRerun]_vars

(***************************************************************************)
(* SpecSlots: one session of either variant, with every mask; the result   *)
(* datagrams carry any peripheral and any result byte, and the id of the   *)
(* session on an empty table.                                              *)
(***************************************************************************)
\* the datagrams drawn: test_id is 1 (0 in a slot not written)
SlotsInput(msgs) == \A j \in 1..Len(msgs) : msgs[j].test_id \in {0, 1}

NextSlots ==
    \/ connect
    \/ runTestsEnter
    \/ getNextTestId
    \/ sendOutMsg
    \/ resizeSlots
    \/ spawnThread
    \/ joinThread
    \/ computeVerdict
    \/ persist
    \/ \E i \in 1..N_TESTS : recvInMsg(i) /\ SlotsInput(inMsgs')
    \/ \E i \in 1..N_TESTS : recvInMsgError(i)
    \/ run_parallel_tests
    \/ c_getNextId
    \/ c_init
    \/ c_send
    \/ c_semInit
    \/ c_spawn
    \/ c_wait
    \/ c_join
    \/ c_verdict
    \/ c_log
    \/ \E i \in 1..N_TESTS : recv_thread(i) /\ SlotsInput(inMsgs')
    \/ \E i \in 1..N_TESTS : recv_threadError(i)
    \/ Deliver

SpecSlots == Init /\ [][NextSlots]_vars

(***************************************************************************)
(* SpecLive: one session of the C++ variant under fair scheduling.  Every  *)
(* thread that can take a step eventually takes one: the caller in         *)
(* runTests, and a listener whose recvfrom has a datagram to return.  The  *)
(* network keeps delivering datagrams, of any length, while the session    *)
(* runs and the socket has room.                                           *)
(***************************************************************************)
\* listener i, with the datagrams drawn as in SpecRerun
liveRecv(i) == recvInMsg(i) /\ RerunInput(inMsgs')

NextLive ==
    \/ connect
    \/ (runTestsEnter /\ flags' \in RerunMasks)
    \/ getNextTestId
    \/ sendOutMsg
    \/ resizeSlots
    \/ spawnThread
    \/ joinThread
    \/ computeVerdict
    \/ persist
    \/ \E i \in 1..N_TESTS : liveRecv(i)
    \/ \E i \in 1..N_TESTS : recvInMsgError(i)
    \/ Deliver

\* the scheduler is fair to the caller and to each listener; the network
\* delivers
FairLive ==
    /\ WF_vars(resizeSlots)
    /\ WF_vars(spawnThread)
    /\ WF_vars(joinThread)
    /\ WF_vars(computeVerdict)
    /\ WF_vars(persist)
    /\ \A i \in 1..N_TESTS : WF_vars(liveRecv(i))
    /\ WF_vars(Deliver)

InitLive == Init /\ variant = "cpp"

SpecLive == InitLive /\ [][NextLive]_vars /\ FairLive

(***************************************************************************)
(* SpecCodec: runTests 90-93 and 101 fill outMsg from the arguments,       *)
(* sendOutMsg 173-186 lays it out in buf; a reader of that layout takes    *)
(* the fields back out.  Bytes are 0..255.                                 *)
(***************************************************************************)
\* sizeof(outMsg.payload)
PAYLOAD_SIZE == 256

\* assignment to a uint8_t
ToUint8(n) == n % 256

\* strlen(s.c_str()): the bytes before the first NUL, all of them if there is none
CLen(s) ==
    IF \E i \in 1..Len(s) : s[i] = 0
       THEN (CHOOSE i \in 1..Len(s) : s[i] = 0 /\ \A j \in 1..(i - 1) : s[j] # 0) - 1
       ELSE Len(s)

\* strncpy(dst, s.c_str(), n): the bytes before the first NUL, at most n of
\* them, the rest of the n bytes zero
strncpy(s, n) == [i \in 1..n |-> IF i <= CLen(s) THEN s[i] ELSE 0]

\* memcpy of a uint32_t on a little-endian host
Bytes32(x) ==
    <<x % 256, (x \div 256) % 256, (x \div 65536) % 256, (x \div 16777216) % 256>>

\* runTests 90-93, 101: outMsg as filled from the arguments and the new id
FillOutMsg(id, f, n_iter, shared) ==
    [test_id |-> id,
     peripheral |-> ToUint8(f),
     n_iter |-> ToUint8(n_iter),
     p_len |-> ToUint8(Len(shared)),
     payload |-> strncpy(shared, PAYLOAD_SIZE)]

\* sendOutMsg 173-186: buf[0 .. n_bytes)
EncodeBytes(msg) ==
    Bytes32(msg.test_id) \o <<msg.peripheral, msg.n_iter, msg.p_len>>
    \o (IF msg.p_len > 0 THEN SubSeq(msg.payload, 1, msg.p_len) ELSE <<>>)

\* a reader of the command layout: 4 bytes id, mask, iterations, length,
\* then as many payload bytes as the length byte says
DecodeBytes(b) ==
    [test_id |-> b[1] + 256 * b[2] + 65536 * b[3] + 16777216 * b[4],
     peripheral |-> b[5],
     n_iter |-> b[6],
     p_len |-> b[7],
     payload |-> SubSeq(b, HDR_SIZE + 1, HDR_SIZE + b[7])]

\* the arguments of one call
CodecArgs ==
    [st : {"args"}, test_id : CodecIds, flags : {TEST_UART, TEST_SPI + TEST_I2C},
     n_iter : CodecIters, shared : SharedStrings]

\* runTests 90-93, 101
codecFill ==
    /\ codec.st = "args"
    /\ codec' = [st |-> "filled", test_id |-> codec.test_id, flags |-> codec.flags,
                 n_iter |-> codec.n_iter, shared |-> codec.shared,
                 msg |-> FillOutMsg(codec.test_id, codec.flags, codec.n_iter,
                                    codec.shared)]
    /\ UNCHANGED <<variant, psize, pc, flags, test_id, outMsg, inMsgs, results,
                    n_threads, threads, waited, sem, joined, all_success, sockq, sent,
                    db, ret, ses, main, hist, cli, bridge, wifi, fwd>>

\* sendOutMsg 173-186
codecEncode ==
    /\ codec.st = "filled"
    /\ codec' = [st |-> "encoded", test_id |-> codec.test_id, flags |-> codec.flags,
                 n_iter |-> codec.n_iter, shared |-> codec.shared,
                 msg |-> codec.msg, wire |-> EncodeBytes(codec.msg)]
    /\ UNCHANGED <<variant, psize, pc, flags, test_id, outMsg, inMsgs, results,
                    n_threads, threads, waited, sem, joined, all_success, sockq, sent,
                    db, ret, ses, main, hist, cli, bridge, wifi, fwd>>

\* the reader at the other end
codecDecode ==
    /\ codec.st = "encoded"
    /\ codec' = [st |-> "decoded", test_id |-> codec.test_id, flags |-> codec.flags,
                 n_iter |-> codec.n_iter, shared |-> codec.shared,
                 msg |-> codec.msg, wire |-> codec.wire,
                 dec |-> DecodeBytes(codec.wire)]
    /\ UNCHANGED <<variant, psize, pc, flags, test_id, outMsg, inMsgs, results,
                    n_threads, threads, waited, sem, joined, all_success, sockq, sent,
                    db, ret, ses, main, hist, cli, bridge, wifi, fwd>>

InitCodec ==
    /\ variant = "cpp"
    /\ psize = 0
    /\ pc = "idle"
    /\ flags = 0
    /\ test_id = 0
    /\ outMsg = [test_id |-> 0, peripheral |-> 0, p_len |-> 0]
    /\ inMsgs = <<>>
    /\ results = <<>>
    /\ n_threads = 0
    /\ threads = <<>>
    /\ waited = 0
    /\ sem = 0
    /\ joined = 0
    /\ all_success = 0
    /\ sockq = <<>>
    /\ sent = <<>>
    /\ db = <<>>
    /\ ret = "none"
    /\ ses = NewSes
    /\ main = NewMain(variant)
    /\ hist = <<>>
    /\ codec \in CodecArgs
    /\ cli = NoCli
    /\ bridge = NoBridge
    /\ wifi = NoWifi
    /\ fwd = NoFwd

NextCodec ==
    \/ codecFill
    \/ codecEncode
    \/ codecDecode

SpecCodec == InitCodec /\ [][NextCodec]_vars

(***************************************************************************)
(* SpecArgs: the option loop of main, C++ (main.cpp 79-197) and C          *)
(* (main.c 202-436).  A token is the sequence of its characters; argv here *)
(* is argv[1 .. argc-1] of the program.                                    *)
(***************************************************************************)
\* std::string / char * literals, character by character
T_all == <<"-", "-", "a", "l", "l">>
T_n == <<"-", "n">>
T_h == <<"-", "h">>

\* the tokens command lines are made of: letter options alone and stacked,
\* --all, -n, -h, numbers in and out of range, a message, a number with a tail
Tokens ==
    { <<"-", "u">>, <<"-", "s", "i">>, T_all, T_n, T_h,
      <<"0">>, <<"2", "5", "5">>, <<"2", "5", "6">>, <<"-", "1">>,
      <<"m">>, <<"7", "x">> }

\* the command lines: up to MaxArgs tokens
ArgLines == UNION { [1..k -> Tokens] : k \in 0..MaxArgs }

Digits == <<"0", "1", "2", "3", "4", "5", "6", "7", "8", "9">>

IsDigit(c) == \E d \in 1..10 : Digits[d] = c

DigitVal(c) == (CHOOSE d \in 1..10 : Digits[d] = c) - 1

RECURSIVE LeadingDigits(_)
\* the digits a conversion consumes: the longest prefix of digits
LeadingDigits(s) ==
    IF s # <<>> /\ IsDigit(s[1]) THEN <<s[1]>> \o LeadingDigits(Tail(s)) ELSE <<>>

RECURSIVE DecVal(_, _)
DecVal(s, acc) ==
    IF s = <<>> THEN acc ELSE DecVal(Tail(s), 10 * acc + DigitVal(s[1]))

\* strtol(tok, &endptr, 10): an optional sign, then digits; val is the number
\* read, rest what endptr points at (the whole token when no digit was read)
strtol(tok) ==
    LET neg == tok # <<>> /\ tok[1] = "-"
        body == IF neg THEN Tail(tok) ELSE tok
        ds == LeadingDigits(body)
    IN IF ds = <<>> THEN [val |-> 0, rest |-> tok]
       ELSE [val |-> IF neg THEN 0 - DecVal(ds, 0) ELSE DecVal(ds, 0),
             rest |-> SubSeq(body, Len(ds) + 1, Len(body))]

\* std::stoi(tok): the number strtol reads, std::invalid_argument when no
\* digit was read; what follows the digits is ignored
stoi(tok) ==
    [thrown |-> strtol(tok).rest = tok, val |-> strtol(tok).val]

\* (unsigned) x > lim for an int x: a negative x converts to a value above 2^31
UintExceeds(x, lim) == x < 0 \/ x > lim

\* argv[i + 1][0] != '-' (a token is never empty)
StartsWithDash(tok) == tok[1] = "-"

\* the locals of main before the loop (main.cpp 79-83, main.c 202-208)
NewCli(argv) ==
    [st |-> "loop", argv |-> argv, i |-> 1,
     want_u |-> FALSE, want_s |-> FALSE, want_i |-> FALSE,
     seen_u |-> FALSE, seen_s |-> FALSE, seen_i |-> FALSE,
     used_all |-> FALSE, used_n |-> FALSE, n_iter |-> 1,
     exit |-> "none", flags |-> 0, n_arg |-> 0]

\* main returns or exits with code e before the orchestrator is called
CliExit(c, e) == [c EXCEPT !.st = "done", !.exit = e]

\* the index after the token at k and after its message, when one follows
AfterMsg(c, k) ==
    IF k + 1 <= Len(c.argv) /\ ~StartsWithDash(c.argv[k + 1]) THEN k + 2 ELSE k + 1

RECURSIVE StackCpp(_, _)
\* main.cpp 126-146: the letters of one stack, from letter j on; want_* is
\* both the request and the repetition test
StackCpp(c, letters) ==
    IF letters = <<>> THEN c
    ELSE LET l == letters[1]
         IN IF l = "u" THEN (IF c.want_u THEN CliExit(c, "ARGS_ERROR")
                             ELSE StackCpp([c EXCEPT !.want_u = TRUE], Tail(letters)))
            ELSE IF l = "s" THEN (IF c.want_s THEN CliExit(c, "ARGS_ERROR")
                             ELSE StackCpp([c EXCEPT !.want_s = TRUE], Tail(letters)))
            ELSE IF l = "i" THEN (IF c.want_i THEN CliExit(c, "ARGS_ERROR")
                             ELSE StackCpp([c EXCEPT !.want_i = TRUE], Tail(letters)))
            ELSE CliExit(c, "ARGS_ERROR")

RECURSIVE StackC(_, _)
\* main.c 335-355: the letters of one stack; seen_* is the repetition test
StackC(c, letters) ==
    IF letters = <<>> THEN c
    ELSE LET l == letters[1]
         IN IF l = "u" THEN (IF c.seen_u THEN CliExit(c, "ARGS_ERROR")
                             ELSE StackC([c EXCEPT !.seen_u = TRUE, !.want_u = TRUE],
                                         Tail(letters)))
            ELSE IF l = "s" THEN (IF c.seen_s THEN CliExit(c, "ARGS_ERROR")
                             ELSE StackC([c EXCEPT !.seen_s = TRUE, !.want_s = TRUE],
                                         Tail(letters)))
            ELSE IF l = "i" THEN (IF c.seen_i THEN CliExit(c, "ARGS_ERROR")
                             ELSE StackC([c EXCEPT !.seen_i = TRUE, !.want_i = TRUE],
                                         Tail(letters)))
            ELSE CliExit(c, "ARGS_ERROR")

\* main.cpp 85-162: one iteration of the for loop, on argv[i]
IterCpp(c) ==
    LET arg == c.argv[c.i]
        more == c.i + 1 <= Len(c.argv)
    IN IF arg = T_h THEN CliExit(c, "EXIT_SUCCESS")
       ELSE IF arg = T_all
          THEN IF c.used_all THEN CliExit(c, "ARGS_ERROR")
               ELSE [c EXCEPT !.want_u = TRUE, !.want_s = TRUE, !.want_i = TRUE,
                              !.used_all = TRUE, !.i = AfterMsg(c, c.i)]
       ELSE IF arg = T_n
          THEN IF c.used_n \/ ~more THEN CliExit(c, "ARGS_ERROR")
               ELSE IF stoi(c.argv[c.i + 1]).thrown THEN CliExit(c, "SIGABRT")
               ELSE IF UintExceeds(stoi(c.argv[c.i + 1]).val, 255)
                  THEN CliExit(c, "ARGS_ERROR")
               ELSE [c EXCEPT !.n_iter = stoi(c.argv[c.i + 1]).val,
                              !.used_n = TRUE, !.i = c.i + 2]
       ELSE IF arg[1] = "-" /\ Len(arg) > 1
          THEN LET d == StackCpp(c, Tail(arg))
               IN IF d.st = "done" THEN d ELSE [d EXCEPT !.i = AfterMsg(c, c.i)]
       ELSE CliExit(c, "ARGS_ERROR")

\* main.c 269-380: one iteration of the while loop, on argv[idx]
IterC(c) ==
    LET arg == c.argv[c.i]
        more == c.i + 1 <= Len(c.argv)
    IN IF arg = T_h THEN CliExit(c, "EXIT_SUCCESS")
       ELSE IF arg = T_all
          THEN IF c.used_all THEN CliExit(c, "ARGS_ERROR")
               ELSE [c EXCEPT !.want_u = TRUE, !.want_s = TRUE, !.want_i = TRUE,
                              !.seen_u = TRUE, !.seen_s = TRUE, !.seen_i = TRUE,
                              !.used_all = TRUE, !.i = AfterMsg(c, c.i)]
       ELSE IF arg = T_n
          THEN IF c.used_n \/ ~more THEN CliExit(c, "ARGS_ERROR")
               ELSE LET r == strtol(c.argv[c.i + 1])
                    IN IF r.rest # <<>> \/ r.val < 0 \/ r.val > 255
                          THEN CliExit(c, "ARGS_ERROR")
                          ELSE [c EXCEPT !.n_iter = r.val % 256, !.used_n = TRUE,
                                         !.i = c.i + 2]
       ELSE IF arg[1] = "-" /\ Len(arg) > 1 /\ arg[2] # "-"
          THEN LET d == StackC(c, Tail(arg))
               IN IF d.st = "done" THEN d ELSE [d EXCEPT !.i = AfterMsg(c, c.i)]
       ELSE CliExit(c, "ARGS_ERROR")

\* flags |= TEST_UART ... (main.cpp 182-187, main.c 415-420)
MaskOf(c) ==
    (IF c.want_u THEN TEST_UART ELSE 0) + (IF c.want_s THEN TEST_SPI ELSE 0)
    + (IF c.want_i THEN TEST_I2C ELSE 0)

\* one iteration of the C++ loop
parseArg ==
    /\ variant = "cpp"
    /\ cli.st = "loop"
    /\ cli.i <= Len(cli.argv)
    /\ cli' = IterCpp(cli)
    /\ UNCHANGED <<variant, psize, pc, flags, test_id, outMsg, inMsgs, results,
                    n_threads, threads, waited, sem, joined, all_success, sockq, sent,
                    db, ret, ses, main, hist, codec, bridge, wifi, fwd>>

\* main.cpp 19-23, 164-194: after the loop; no token at all and no requested
\* peripheral are ARGS_ERROR, else runTests(flags, n_iter, shared) is called
\* (connect having succeeded), n_iter converted to its uint8_t parameter
parseEnd ==
    /\ variant = "cpp"
    /\ cli.st = "loop"
    /\ cli.i > Len(cli.argv)
    /\ cli' = IF cli.argv = <<>> \/ ~(cli.want_u \/ cli.want_s \/ cli.want_i)
                 THEN CliExit(cli, "ARGS_ERROR")
                 ELSE [cli EXCEPT !.st = "done", !.exit = "invoke",
                                  !.flags = MaskOf(cli), !.n_arg = cli.n_iter % 256]
    /\ UNCHANGED <<variant, psize, pc, flags, test_id, outMsg, inMsgs, results,
                    n_threads, threads, waited, sem, joined, all_success, sockq, sent,
                    db, ret, ses, main, hist, codec, bridge, wifi, fwd>>

\* one iteration of the C loop
c_parseArg ==
    /\ variant = "c"
    /\ cli.st = "loop"
    /\ cli.i <= Len(cli.argv)
    /\ cli' = IterC(cli)
    /\ UNCHANGED <<variant, psize, pc, flags, test_id, outMsg, inMsgs, results,
                    n_threads, threads, waited, sem, joined, all_success, sockq, sent,
                    db, ret, ses, main, hist, codec, bridge, wifi, fwd>>

\* main.c 210-214, 382-435: after the loop; run_parallel_tests(peripheral_flags,
\* n, shared_msg) is called when a peripheral was requested
c_parseEnd ==
    /\ variant = "c"
    /\ cli.st = "loop"
    /\ cli.i > Len(cli.argv)
    /\ cli' = IF cli.argv = <<>> \/ ~(cli.want_u \/ cli.want_s \/ cli.want_i)
                 THEN CliExit(cli, "ARGS_ERROR")
                 ELSE [cli EXCEPT !.st = "done", !.exit = "invoke",
                                  !.flags = MaskOf(cli), !.n_arg = cli.n_iter]
    /\ UNCHANGED <<variant, psize, pc, flags, test_id, outMsg, inMsgs, results,
                    n_threads, threads, waited, sem, joined, all_success, sockq, sent,
                    db, ret, ses, main, hist, codec, bridge, wifi, fwd>>

InitArgs ==
    /\ variant \in {"cpp", "c"}
    /\ psize = 0
    /\ pc = "idle"
    /\ flags = 0
    /\ test_id = 0
    /\ outMsg = [test_id |-> 0, peripheral |-> 0, p_len |-> 0]
    /\ inMsgs = <<>>
    /\ results = <<>>
    /\ n_threads = 0
    /\ threads = <<>>
    /\ waited = 0
    /\ sem = 0
    /\ joined = 0
    /\ all_success = 0
    /\ sockq = <<>>
    /\ sent = <<>>
    /\ db = <<>>
    /\ ret = "none"
    /\ ses = NewSes
    /\ main = NewMain(variant)
    /\ hist = <<>>
    /\ codec = NoCodec
    /\ cli \in { NewCli(a) : a \in ArgLines }
    /\ bridge = NoBridge
    /\ wifi = NoWifi
    /\ fwd = NoFwd

NextArgs ==
    \/ parseArg
    \/ parseEnd
    \/ c_parseArg
    \/ c_parseEnd

SpecArgs == InitArgs /\ [][NextArgs]_vars

(***************************************************************************)
(* SpecBridge: the ESP32 bridge, src/main.c.  udp_server_task (149-197)    *)
(* forwards a command datagram to the UART and remembers its sender;       *)
(* rx_task (204-228) forwards what the UART received to that sender.  The  *)
(* UUT answers a command with one IN_MSG_SIZE-byte result per requested    *)
(* peripheral, written to its UART one after the other; the bytes reach    *)
(* the ESP32 one at a time.  A byte is <<r, b>>: byte b of result r.       *)
(***************************************************************************)
\* #define RX_BUF_SIZE 1024
RX_BUF_SIZE == 1024

\* the bridge after app_main: no sender known, nothing received
NewBridge(k) ==
    [st |-> "on", k |-> k, udp_remote_known |-> FALSE, written |-> 0,
     uart |-> <<>>, out |-> <<>>]

\* what uart_read_bytes(UART_NUM_2, data, RX_BUF_SIZE, ticks) returns when
\* its wait ends: the bytes the driver holds, at most RX_BUF_SIZE of them
uart_read_bytes(buffered) ==
    IF Len(buffered) > RX_BUF_SIZE THEN RX_BUF_SIZE ELSE Len(buffered)

\* lines 176-192: a command datagram arrives; its sender is remembered and
\* its bytes go to the UART of the UUT
udp_server_task ==
    /\ bridge.st = "on"
    /\ ~bridge.udp_remote_known
    /\ bridge' = [bridge EXCEPT !.udp_remote_known = TRUE]
    /\ UNCHANGED <<variant, psize, pc, flags, test_id, outMsg, inMsgs, results,
                    n_threads, threads, waited, sem, joined, all_success, sockq, sent,
                    db, ret, ses, main, hist, codec, cli, wifi, fwd>>

\* the UUT, having read the command, writes the next byte of its results
uutWrite ==
    /\ bridge.st = "on"
    /\ bridge.udp_remote_known
    /\ bridge.written < bridge.k * IN_MSG_SIZE
    /\ Len(bridge.uart) < 2 * RX_BUF_SIZE
    /\ bridge' = [bridge EXCEPT
                    !.written = @ + 1,
                    !.uart = Append(@, <<(bridge.written \div IN_MSG_SIZE) + 1,
                                         (bridge.written % IN_MSG_SIZE) + 1>>)]
    /\ UNCHANGED <<variant, psize, pc, flags, test_id, outMsg, inMsgs, results,
                    n_threads, threads, waited, sem, joined, all_success, sockq, sent,
                    db, ret, ses, main, hist, codec, cli, wifi, fwd>>

\* lines 210-224: one pass of the loop whose read returned rxBytes > 0; the
\* bytes read go out as one datagram when a sender is known
rx_task ==
    /\ bridge.st = "on"
    /\ uart_read_bytes(bridge.uart) > 0
    /\ LET rxBytes == uart_read_bytes(bridge.uart)
       IN bridge' = [bridge EXCEPT
                       !.uart = SubSeq(@, rxBytes + 1, Len(@)),
                       !.out = IF bridge.udp_remote_known
                                  THEN Append(@, SubSeq(bridge.uart, 1, rxBytes))
                                  ELSE @]
    /\ UNCHANGED <<variant, psize, pc, flags, test_id, outMsg, inMsgs, results,
                    n_threads, threads, waited, sem, joined, all_success, sockq, sent,
                    db, ret, ses, main, hist, codec, cli, wifi, fwd>>

InitBridge ==
    /\ variant = "cpp"
    /\ psize = 0
    /\ pc = "idle"
    /\ flags = 0
    /\ test_id = 0
    /\ outMsg = [test_id |-> 0, peripheral |-> 0, p_len |-> 0]
    /\ inMsgs = <<>>
    /\ results = <<>>
    /\ n_threads = 0
    /\ threads = <<>>
    /\ waited = 0
    /\ sem = 0
    /\ joined = 0
    /\ all_success = 0
    /\ sockq = <<>>
    /\ sent = <<>>
    /\ db = <<>>
    /\ ret = "none"
    /\ ses = NewSes
    /\ main = NewMain(variant)
    /\ hist = <<>>
    /\ codec = NoCodec
    /\ cli = NoCli
    /\ bridge \in { NewBridge(k) : k \in 1..MaxResults }
    /\ wifi = NoWifi
    /\ fwd = NoFwd

NextBridge ==
    \/ udp_server_task
    \/ uutWrite
    \/ rx_task

SpecBridge == InitBridge /\ [][NextBridge]_vars

(***************************************************************************)
(* SpecWifi: the ESP32 from app_main to the creation of its two tasks,     *)
(* src/main.c.  app_main (230-245) calls wifi_init_sta (71-123), which     *)
(* registers event_handler (45-65), starts the station and waits in        *)
(* xEventGroupWaitBits for WIFI_CONNECTED_BIT or WIFI_FAIL_BIT; then       *)
(* uart_init and the two xTaskCreate calls.  The station driver posts its  *)
(* events to the default event loop, whose task calls event_handler for    *)
(* one event at a time; the handler stays registered after wifi_init_sta   *)
(* has returned.                                                           *)
(***************************************************************************)
\* line 25
EXAMPLE_ESP_MAXIMUM_RETRY == 5

\* lines 28-29: BIT0 and BIT1
WIFI_CONNECTED_BIT == 1
WIFI_FAIL_BIT == 2

\* events the loop can hold before the driver has to wait
MaxEvents == 2

\* the events the handler is registered for: every WIFI_EVENT id (84-88)
\* and IP_EVENT_STA_GOT_IP (89-93)
WifiEvents == {"WIFI_EVENT_STA_START", "WIFI_EVENT_STA_CONNECTED",
               "WIFI_EVENT_STA_DISCONNECTED", "IP_EVENT_STA_GOT_IP"}

\* xEventGroupSetBits
xEventGroupSetBits(bits, b) == IF HasBit(bits, b) THEN bits ELSE bits + b

\* line 51 as it would be if the comparison were <=
RetryAllowedInclusive(n) == n <= EXAMPLE_ESP_MAXIMUM_RETRY

\* line 51: s_retry_num < EXAMPLE_ESP_MAXIMUM_RETRY
RetryAllowed(n) == n < EXAMPLE_ESP_MAXIMUM_RETRY

\* xEventGroupWaitBits as it would be with a timeout that expires
WaitDoneTimeout(bits) == TRUE

\* lines 108-112: xEventGroupWaitBits(WIFI_CONNECTED_BIT | WIFI_FAIL_BIT,
\* pdFALSE, pdFALSE, portMAX_DELAY) returns once either bit is set
WaitDone(bits) == HasBit(bits, WIFI_CONNECTED_BIT) \/ HasBit(bits, WIFI_FAIL_BIT)

\* lines 32, 27 and app_main at its call of wifi_init_sta; the station is
\* stopped, the event loop empty, no task created.  attempts and disc are
\* history: the reconnect attempts made and the disconnect events handled
\* since the last got-IP event (or since boot); bitsRead is the value
\* xEventGroupWaitBits returned
NewWifi == [st |-> "on", at |-> "wifi_init_sta", s_retry_num |-> 0, bits |-> 0,
            drv |-> "stopped", events |-> <<>>, tasks |-> <<>>,
            attempts |-> 0, disc |-> 0, bitsRead |-> 0]

\* lines 73-104: the event group, the handler registrations and
\* esp_wifi_start, which makes the driver post WIFI_EVENT_STA_START
wifi_init_sta ==
    /\ wifi.st = "on"
    /\ wifi.at = "wifi_init_sta"
    /\ wifi' = [wifi EXCEPT !.at = "xEventGroupWaitBits",
                            !.drv = "started",
                            !.events = Append(@, "WIFI_EVENT_STA_START")]
    /\ UNCHANGED <<variant, psize, pc, flags, test_id, outMsg, inMsgs, results,
                    n_threads, threads, waited, sem, joined, all_success, sockq, sent,
                    db, ret, ses, main, hist, codec, cli, bridge, fwd>>

\* lines 108-122: the wait and the log line chosen from the bits
xEventGroupWaitBits ==
    /\ wifi.st = "on"
    /\ wifi.at = "xEventGroupWaitBits"
    /\ WaitDone(wifi.bits)
    /\ wifi' = [wifi EXCEPT !.at = "uart_init", !.bitsRead = wifi.bits]
    /\ UNCHANGED <<variant, psize, pc, flags, test_id, outMsg, inMsgs, results,
                    n_threads, threads, waited, sem, joined, all_success, sockq, sent,
                    db, ret, ses, main, hist, codec, cli, bridge, fwd>>

\* line 241, uart_init (129-142)
uart_init ==
    /\ wifi.st = "on"
    /\ wifi.at = "uart_init"
    /\ wifi' = [wifi EXCEPT !.at = "xTaskCreate"]
    /\ UNCHANGED <<variant, psize, pc, flags, test_id, outMsg, inMsgs, results,
                    n_threads, threads, waited, sem, joined, all_success, sockq, sent,
                    db, ret, ses, main, hist, codec, cli, bridge, fwd>>

\* lines 243-244: rx_task, then udp_server_task
xTaskCreate ==
    /\ wifi.st = "on"
    /\ wifi.at = "xTaskCreate"
    /\ wifi' = [wifi EXCEPT
                  !.tasks = Append(@, IF @ = <<>> THEN "rx_task" ELSE "udp_server_task"),
                  !.at = IF wifi.tasks = <<>> THEN "xTaskCreate" ELSE "returned"]
    /\ UNCHANGED <<variant, psize, pc, flags, test_id, outMsg, inMsgs, results,
                    n_threads, threads, waited, sem, joined, all_success, sockq, sent,
                    db, ret, ses, main, hist, codec, cli, bridge, fwd>>

\* esp_wifi_connect: the driver starts an attempt
esp_wifi_connect(drv) == IF drv = "started" THEN "connecting" ELSE drv

\* lines 45-65: the handler called by the event loop for its oldest event
event_handler ==
    /\ wifi.st = "on"
    /\ wifi.events # <<>>
    /\ LET ev == Head(wifi.events)
           w == [wifi EXCEPT !.events = Tail(@)]
       IN wifi' =
            CASE ev = "WIFI_EVENT_STA_START" ->
                   [w EXCEPT !.drv = esp_wifi_connect(@)]
              [] ev = "WIFI_EVENT_STA_DISCONNECTED" ->
                   IF RetryAllowed(wifi.s_retry_num)
                      THEN [w EXCEPT !.drv = esp_wifi_connect(@),
                                     !.s_retry_num = @ + 1,
                                     !.attempts = @ + 1,
                                     !.disc = @ + 1]
                      ELSE [w EXCEPT !.bits = xEventGroupSetBits(@, WIFI_FAIL_BIT),
                                     !.disc = @ + 1]
              [] ev = "IP_EVENT_STA_GOT_IP" ->
                   [w EXCEPT !.s_retry_num = 0,
                             !.bits = xEventGroupSetBits(@, WIFI_CONNECTED_BIT),
                             !.attempts = 0,
                             !.disc = 0]
              [] OTHER -> w
    /\ UNCHANGED <<variant, psize, pc, flags, test_id, outMsg, inMsgs, results,
                    n_threads, threads, waited, sem, joined, all_success, sockq, sent,
                    db, ret, ses, main, hist, codec, cli, bridge, fwd>>

\* the driver: an attempt reaches the access point
staConnected ==
    /\ wifi.st = "on"
    /\ wifi.drv = "connecting"
    /\ Len(wifi.events) < MaxEvents
    /\ wifi' = [wifi EXCEPT !.drv = "associated",
                            !.events = Append(@, "WIFI_EVENT_STA_CONNECTED")]
    /\ UNCHANGED <<variant, psize, pc, flags, test_id, outMsg, inMsgs, results,
                    n_threads, threads, waited, sem, joined, all_success, sockq, sent,
                    db, ret, ses, main, hist, codec, cli, bridge, fwd>>

\* the driver: an attempt fails, or the connection is lost
staDisconnected ==
    /\ wifi.st = "on"
    /\ wifi.drv \in {"connecting", "associated", "connected"}
    /\ Len(wifi.events) < MaxEvents
    /\ wifi' = [wifi EXCEPT !.drv = "started",
                            !.events = Append(@, "WIFI_EVENT_STA_DISCONNECTED")]
    /\ UNCHANGED <<variant, psize, pc, flags, test_id, outMsg, inMsgs, results,
                    n_threads, threads, waited, sem, joined, all_success, sockq, sent,
                    db, ret, ses, main, hist, codec, cli, bridge, fwd>>

\* the network interface: the station got its address
staGotIp ==
    /\ wifi.st = "on"
    /\ wifi.drv = "associated"
    /\ Len(wifi.events) < MaxEvents
    /\ wifi' = [wifi EXCEPT !.drv = "connected",
                            !.events = Append(@, "IP_EVENT_STA_GOT_IP")]
    /\ UNCHANGED <<variant, psize, pc, flags, test_id, outMsg, inMsgs, results,
                    n_threads, threads, waited, sem, joined, all_success, sockq, sent,
                    db, ret, ses, main, hist, codec, cli, bridge, fwd>>

InitWifi ==
    /\ variant = "cpp"
    /\ psize = 0
    /\ pc = "idle"
    /\ flags = 0
    /\ test_id = 0
    /\ outMsg = [test_id |-> 0, peripheral |-> 0, p_len |-> 0]
    /\ inMsgs = <<>>
    /\ results = <<>>
    /\ n_threads = 0
    /\ threads = <<>>
    /\ waited = 0
    /\ sem = 0
    /\ joined = 0
    /\ all_success = 0
    /\ sockq = <<>>
    /\ sent = <<>>
    /\ db = <<>>
    /\ ret = "none"
    /\ ses = NewSes
    /\ main = NewMain(variant)
    /\ hist = <<>>
    /\ codec = NoCodec
    /\ cli = NoCli
    /\ bridge = NoBridge
    /\ wifi = NewWifi
    /\ fwd = NoFwd

NextWifi ==
    \/ wifi_init_sta
    \/ xEventGroupWaitBits
    \/ uart_init
    \/ xTaskCreate
    \/ event_handler
    \/ staConnected
    \/ staDisconnected
    \/ staGotIp

SpecWifi == InitWifi /\ [][NextWifi]_vars

\* the scheduler runs app_main and the event loop task; every connect
\* attempt ends in a disconnect event or a got-IP event
FairWifi ==
    /\ WF_vars(wifi_init_sta)
    /\ WF_vars(xEventGroupWaitBits)
    /\ WF_vars(uart_init)
    /\ WF_vars(xTaskCreate)
    /\ WF_vars(event_handler)
    /\ WF_vars(staConnected \/ staGotIp
                  \/ (staDisconnected /\ wifi.drv \in {"connecting", "associated"}))

SpecWifiLive == SpecWifi /\ FairWifi

(***************************************************************************)
(* SpecForward: the two tasks of the bridge and what they share,           *)
(* src/main.c.  udp_server_task (149-197) receives a datagram, copies its  *)
(* source address into udp_remote_addr, sets udp_remote_known and writes   *)
(* the bytes to the UART; rx_task (204-228) reads the UART and, when       *)
(* udp_remote_known is set, sends what it read to udp_remote_addr.  Both   *)
(* tasks are created with priority 10 and no lock protects the two         *)
(* variables: rx_task can read udp_remote_addr while memcpy is writing it. *)
(* What the UART delivers is a sequence of chunks, numbered as they come.  *)
(***************************************************************************)
\* #define UDP_RX_BUF_SIZE 1024
UDP_RX_BUF_SIZE == 1024

\* datagrams received and chunks delivered by the UART in one run
MaxDatagrams == 2
MaxChunks == 2

\* the hosts that send to the bridge: address and port of each
Senders == {[ip |-> 1, port |-> 1], [ip |-> 2, port |-> 2]}

\* lengths of the datagrams that arrive
UdpLens == {0, HDR_SIZE, UDP_RX_BUF_SIZE - 1, UDP_RX_BUF_SIZE}

\* lines 34-35, zero-initialized statics; both tasks at the top of their loop
NewFwd == [st |-> "on", udp_remote_known |-> FALSE,
           udp_remote_addr |-> [ip |-> 0, port |-> 0],
           udp_at |-> "recvfrom", source_addr |-> [ip |-> 0, port |-> 0], len |-> 0,
           dlen |-> 0, nrecv |-> 0, uartTx |-> <<>>,
           rx_at |-> "uart_read_bytes", data |-> <<>>, uart |-> <<>>, nchunks |-> 0,
           out |-> <<>>, dropped |-> {}]

\* what a read of udp_remote_addr can return: the stored value, or, during
\* the memcpy of line 186, any mix of the old and the new fields
AddrRead(cur, src, copying) ==
    IF copying THEN { [ip |-> i, port |-> p] : i \in {cur.ip, src.ip},
                                                p \in {cur.port, src.port} }
               ELSE {cur}

\* lines 176-184: recvfrom returns a datagram of dlen bytes from s
udpRecvfrom ==
    /\ fwd.st = "on"
    /\ fwd.udp_at = "recvfrom"
    /\ fwd.nrecv < MaxDatagrams
    /\ \E s \in Senders, dlen \in UdpLens :
         fwd' = [fwd EXCEPT !.source_addr = s,
                            !.dlen = dlen,
                            !.len = RecvLen(dlen, UDP_RX_BUF_SIZE - 1),
                            !.nrecv = @ + 1,
                            !.udp_at = "memcpy"]
    /\ UNCHANGED <<variant, psize, pc, flags, test_id, outMsg, inMsgs, results,
                    n_threads, threads, waited, sem, joined, all_success, sockq, sent,
                    db, ret, ses, main, hist, codec, cli, bridge, wifi>>

\* line 186: memcpy starts writing udp_remote_addr
udpMemcpy ==
    /\ fwd.st = "on"
    /\ fwd.udp_at = "memcpy"
    /\ fwd' = [fwd EXCEPT !.udp_at = "copying"]
    /\ UNCHANGED <<variant, psize, pc, flags, test_id, outMsg, inMsgs, results,
                    n_threads, threads, waited, sem, joined, all_success, sockq, sent,
                    db, ret, ses, main, hist, codec, cli, bridge, wifi>>

\* lines 186-190: memcpy is done, udp_remote_known = true, uart_write_bytes
udpForward ==
    /\ fwd.st = "on"
    /\ fwd.udp_at = "copying"
    /\ fwd' = [fwd EXCEPT !.udp_remote_addr = fwd.source_addr,
                          !.udp_remote_known = TRUE,
                          !.uartTx = Append(@, fwd.len),
                          !.udp_at = "recvfrom"]
    /\ UNCHANGED <<variant, psize, pc, flags, test_id, outMsg, inMsgs, results,
                    n_threads, threads, waited, sem, joined, all_success, sockq, sent,
                    db, ret, ses, main, hist, codec, cli, bridge, wifi>>

\* the UART receives the next chunk from the UUT
uartArrive ==
    /\ fwd.st = "on"
    /\ fwd.nchunks < MaxChunks
    /\ fwd' = [fwd EXCEPT !.nchunks = @ + 1, !.uart = Append(@, fwd.nchunks + 1)]
    /\ UNCHANGED <<variant, psize, pc, flags, test_id, outMsg, inMsgs, results,
                    n_threads, threads, waited, sem, joined, all_success, sockq, sent,
                    db, ret, ses, main, hist, codec, cli, bridge, wifi>>

\* line 210 with rxBytes > 0 (211): what the driver holds is now in data
rxRead ==
    /\ fwd.st = "on"
    /\ fwd.rx_at = "uart_read_bytes"
    /\ fwd.uart # <<>>
    /\ fwd' = [fwd EXCEPT !.data = fwd.uart, !.uart = <<>>, !.rx_at = "sendto"]
    /\ UNCHANGED <<variant, psize, pc, flags, test_id, outMsg, inMsgs, results,
                    n_threads, threads, waited, sem, joined, all_success, sockq, sent,
                    db, ret, ses, main, hist, codec, cli, bridge, wifi>>

\* lines 216-223: the test of udp_remote_known, socket, sendto, close
rxSend ==
    /\ fwd.st = "on"
    /\ fwd.rx_at = "sendto"
    /\ \E sockOk \in BOOLEAN :
         \E to \in AddrRead(fwd.udp_remote_addr, fwd.source_addr,
                             fwd.udp_at = "copying") :
            fwd' = [fwd EXCEPT
                      !.out = IF fwd.udp_remote_known /\ sockOk
                                 THEN Append(@, [data |-> fwd.data, to |-> to,
                                                 stored |-> fwd.udp_remote_addr,
                                                 arriving |-> IF fwd.udp_at = "recvfrom"
                                                                 THEN fwd.udp_remote_addr
                                                                 ELSE fwd.source_addr,
                                                 nrecv |-> fwd.nrecv])
                                 ELSE @,
                      !.dropped = IF fwd.udp_remote_known /\ sockOk
                                     THEN @
                                     ELSE @ \cup {fwd.data[j] : j \in 1..Len(fwd.data)},
                      !.data = <<>>,
                      !.rx_at = "uart_read_bytes"]
    /\ UNCHANGED <<variant, psize, pc, flags, test_id, outMsg, inMsgs, results,
                    n_threads, threads, waited, sem, joined, all_success, sockq, sent,
                    db, ret, ses, main, hist, codec, cli, bridge, wifi>>

InitForward ==
    /\ variant = "cpp"
    /\ psize = 0
    /\ pc = "idle"
    /\ flags = 0
    /\ test_id = 0
    /\ outMsg = [test_id |-> 0, peripheral |-> 0, p_len |-> 0]
    /\ inMsgs = <<>>
    /\ results = <<>>
    /\ n_threads = 0
    /\ threads = <<>>
    /\ waited = 0
    /\ sem = 0
    /\ joined = 0
    /\ all_success = 0
    /\ sockq = <<>>
    /\ sent = <<>>
    /\ db = <<>>
    /\ ret = "none"
    /\ ses = NewSes
    /\ main = NewMain(variant)
    /\ hist = <<>>
    /\ codec = NoCodec
    /\ cli = NoCli
    /\ bridge = NoBridge
    /\ wifi = NoWifi
    /\ fwd = NewFwd

NextForward ==
    \/ udpRecvfrom
    \/ udpMemcpy
    \/ udpForward
    \/ uartArrive
    \/ rxRead
    \/ rxSend

SpecForward == InitForward /\ [][NextForward]_vars

(***************************************************************************)
(* Notions the properties are stated in                                    *)
(***************************************************************************)
RECURSIVE PopCount(_)
\* number of set bits of a mask
PopCount(m) == IF m = 0 THEN 0 ELSE (m % 2) + PopCount(m \div 2)

\* the requested peripherals in the fixed order UART, SPI, I2C
Requested(f) == SelectSeq(Peripherals, LAMBDA p : HasBit(f, p))

\* the session handed its record to the Result Store
Persisted == ret = "logged"

\* the row the session added
LastRow == db[Len(db)]

\* the session went through its network phase
NetworkPhaseDone == pc \in {"verdict", "log"} \/ ret \in {"logged", "log_failed"}

\* listener i has returned from a receive that recvfrom reported as n bytes
Received(i) == threads[i].st = "returned" /\ threads[i].n = IN_MSG_SIZE

(***************************************************************************)
(* C1: the overallResult handed to the Result Store is the logical AND of  *)
(* the k result slots (k the number of requested peripherals), under the   *)
(* session's test id; a UART-only session whose reply carries outcome 0x01 *)
(* is recorded as success.                                                 *)
(***************************************************************************)
C1_VerdictIsAnd ==
    Persisted =>
        /\ LastRow.test_id = test_id
        /\ LastRow.result = (\A i \in 1..PopCount(flags) : results[i] = 1)
        /\ (flags = TEST_UART /\ Received(1) /\ inMsgs[1].test_result = TEST_SUCCESS)
              => LastRow.result

\* Scenario A: UART only, the reply echoes the id and carries 0x01, recorded success
C1_Witness ==
    /\ Persisted
    /\ flags = TEST_UART
    /\ Received(1)
    /\ inMsgs[1] = [test_id |-> test_id, peripheral |-> TEST_UART,
                    test_result |-> TEST_SUCCESS]
    /\ LastRow.result

(***************************************************************************)
(* C2: for a non-empty mask exactly popcount(mask) listeners are spawned,  *)
(* and the verdict, the persistence and the return of run come only after  *)
(* every one of them has returned and been joined.                         *)
(***************************************************************************)
C2_JoinAllBarrier ==
    flags # 0 =>
        /\ (pc \in {"wait", "join"} \/ NetworkPhaseDone)
              => Len(threads) = PopCount(flags)
        /\ NetworkPhaseDone
              => /\ joined = PopCount(flags)
                 /\ \A i \in 1..Len(threads) : threads[i].st = "returned"

\* three listeners, all returned, the C++ caller about to compute the verdict
C2_Witness ==
    /\ variant = "cpp"
    /\ pc = "verdict"
    /\ flags = TEST_UART + TEST_SPI + TEST_I2C
    /\ Len(threads) = N_TESTS
    /\ \A i \in 1..N_TESTS : threads[i].st = "returned"

(***************************************************************************)
(* C3 (as claimed): overall success is never recorded on the strength of a *)
(* result whose testId differs from the session's testId.                  *)
(***************************************************************************)
C3_SuccessOnlyOnOwnId ==
    (Persisted /\ LastRow.result)
        => \A i \in 1..PopCount(flags) : inMsgs[i].test_id = test_id

(***************************************************************************)
(* C4 (as claimed): overall success implies that every requested           *)
(* peripheral was answered by a success result carrying its own code.      *)
(***************************************************************************)
C4_SuccessNeedsOwnCode ==
    (Persisted /\ LastRow.result)
        => \A j \in 1..Len(Requested(flags)) :
              \E i \in 1..PopCount(flags) :
                 /\ inMsgs[i].peripheral = Requested(flags)[j]
                 /\ inMsgs[i].test_result = TEST_SUCCESS

(***************************************************************************)
(* C5 (as claimed): a received outcome is stored in the slot given by the  *)
(* answering peripheral's position within the requested set.               *)
(***************************************************************************)
C5_SlotByPeripheral ==
    \A i \in 1..Len(threads) :
        (/\ Received(i)
         /\ \E j \in 1..Len(Requested(flags)) : Requested(flags)[j] = inMsgs[i].peripheral)
            => Requested(flags)[i] = inMsgs[i].peripheral

(***************************************************************************)
(* C6 (as claimed): a call with an empty mask is rejected before any       *)
(* collaborator is contacted: no store call, no sendto, no record.         *)
(***************************************************************************)
C6_EmptyMaskRejected ==
    (flags = 0 /\ ret # "none")
        => /\ ses.store = 0
           /\ ses.sendto = 0
           /\ ses.logs = 0
           /\ db = <<>>

(***************************************************************************)
(* C7: when id allocation fails (prep or getNextId throws; get_next_id     *)
(* fails) the session is over: no sendto is ever called, no listener is    *)
(* spawned and no record is persisted.                                     *)
(***************************************************************************)
C7_AllocFailureAborts ==
    ret = "no_id" =>
        /\ pc \in {"idle", "exited"}
        /\ ses.sendto = 0
        /\ sent = <<>>
        /\ threads = <<>>
        /\ ses.recvs = 0
        /\ ses.logs = 0
        /\ db = <<>>

\* Scenario D in the C++ variant: prep succeeded, getNextId threw
C7_Witness ==
    /\ variant = "cpp"
    /\ ret = "no_id"
    /\ pc = "idle"
    /\ flags # 0
    /\ ses.store = 2

(***************************************************************************)
(* C8: when sendto fails or transmits fewer bytes than were encoded, the   *)
(* failure leaves the session: no listener is spawned, no receive is       *)
(* attempted and no record is persisted.                                   *)
(***************************************************************************)
C8_SendFailureAborts ==
    ses.sendres \in {"short", "error"} =>
        /\ ret = "send_failed"
        /\ pc \in {"idle", "exited"}
        /\ threads = <<>>
        /\ ses.recvs = 0
        /\ ses.logs = 0
        /\ db = <<>>

\* a short transmission in the C++ variant
C8_Witness ==
    /\ variant = "cpp"
    /\ ses.sendres = "short"
    /\ ret = "send_failed"
    /\ flags # 0

(***************************************************************************)
(* C9 (as claimed): a listener whose receive failed (recvfrom reported an  *)
(* error or a length other than 6) leaves Failure in its slot and does not *)
(* abort the session.                                                      *)
(***************************************************************************)
C9_RecvFailureDegrades ==
    \A i \in 1..Len(threads) :
        (threads[i].st \in {"returned", "exit"} /\ threads[i].n # IN_MSG_SIZE)
            => /\ results[i] = 0
               /\ ret # "recv_failed"
               /\ pc # "exited"

(***************************************************************************)
(* C10: a result counts as success only when its outcome byte is exactly   *)
(* 0x01; a slot holding any other byte is a failure and makes the          *)
(* recorded overallResult false.                                           *)
(***************************************************************************)
C10_OnlySuccessByteCounts ==
    /\ \A i \in 1..Len(threads) :
          Received(i) => (results[i] = 1 <=> inMsgs[i].test_result = TEST_SUCCESS)
    /\ (Persisted /\ \E i \in 1..PopCount(flags) : inMsgs[i].test_result # TEST_SUCCESS)
          => ~LastRow.result

\* Scenario C: UART and I2C requested, the second reply carries 0x00
C10_Witness ==
    /\ Persisted
    /\ flags = TEST_UART + TEST_I2C
    /\ Received(1) /\ inMsgs[1].test_result = TEST_SUCCESS
    /\ Received(2) /\ inMsgs[2].test_result = 0 /\ inMsgs[2].peripheral = TEST_I2C
    /\ ~LastRow.result

\* the rows the earlier processes logged, in their order
HistRows ==
    LET logged == SelectSeq(hist, LAMBDA h : h.logged)
    IN [k \in 1..Len(logged) |-> [test_id |-> logged[k].id, result |-> logged[k].result]]

\* a test invocation of main has ended
TestDone == main.cmd = "test" /\ main.at = "done"

(***************************************************************************)
(* C11 (as claimed): a datagram whose length is not exactly 6 bytes never  *)
(* produces a success in the slot of the listener that took it.            *)
(***************************************************************************)
C11_OnlySixByteDatagrams ==
    \A i \in 1..Len(threads) :
        (threads[i].st = "returned" /\ threads[i].dlen # IN_MSG_SIZE)
            => results[i] = 0

(***************************************************************************)
(* C12 (as claimed): the id a session is given is strictly greater than    *)
(* the id of every earlier session, the aborted and unlogged ones included.*)
(***************************************************************************)
C12_IdsStrictlyIncrease ==
    test_id # 0 => \A k \in 1..Len(hist) : hist[k].id < test_id

(***************************************************************************)
(* C13 (amended): the table always consists of exactly the rows of the     *)
(* sessions whose logTest succeeded, one row each, in their order and      *)
(* under their ids: a session whose logTest threw, an aborted session, a   *)
(* "get", an "export", prep and getNextId add, change and remove nothing.  *)
(***************************************************************************)
C13_OneRecordPerLoggedSession ==
    /\ db = HistRows \o (IF ret = "logged"
                            THEN <<[test_id |-> test_id, result |-> all_success # 0]>>
                            ELSE <<>>)
    /\ ret = "logged" => Len(Matching(db, test_id)) = 1

\* a logged session, an aborted one that had taken an id, and a second logged one
C13_Witness ==
    /\ ret = "logged"
    /\ Len(db) = 2
    /\ \E k \in 1..Len(hist) : hist[k].id # 0 /\ ~hist[k].logged

(***************************************************************************)
(* C13 (as claimed): every session that completes its network phase has    *)
(* exactly one record under its id.                                        *)
(***************************************************************************)
C13_AsClaimed ==
    (pc = "idle" /\ ret \in {"logged", "log_failed"})
        => Len(Matching(db, test_id)) = 1

(***************************************************************************)
(* C14 (as claimed): for every payload of 0..255 bytes the datagram is     *)
(* 7 + payloadLen bytes long and a reader of the layout gets back the same *)
(* testId, mask, iteration count and payload.                              *)
(***************************************************************************)
C14_RoundTrip ==
    (codec.st = "decoded" /\ Len(codec.shared) <= 255)
        => /\ Len(codec.wire) = HDR_SIZE + Len(codec.shared)
           /\ codec.dec.test_id = codec.test_id
           /\ codec.dec.peripheral = codec.flags
           /\ codec.dec.n_iter = codec.n_iter
           /\ codec.dec.payload = codec.shared

(***************************************************************************)
(* C15 (as claimed): a 255-byte payload is sent in full, and the length    *)
(* byte of a longer payload is never its length modulo 256.                *)
(***************************************************************************)
C15_NoWrapAround ==
    codec.st \in {"encoded", "decoded"}
        => /\ Len(codec.shared) = 255
                => codec.wire[HDR_SIZE] = 255 /\ Len(codec.wire) = HDR_SIZE + 255
           /\ Len(codec.shared) > 255
                => codec.wire[HDR_SIZE] # Len(codec.shared) % 256

(***************************************************************************)
(* C16 (as claimed): what the caller of runTests gets after a failed       *)
(* logTest differs from what it gets after a recorded session.             *)
(***************************************************************************)
C16_PersistFailureReported ==
    ret = "log_failed" => RunResult(ret) # RunResult("logged")

(***************************************************************************)
(* C17 (as claimed): after a session that persisted its record, the text   *)
(* is the rendering of the record with the session's id, showing Success   *)
(* exactly when the verdict was success, or else the generic error text.   *)
(***************************************************************************)
C17_TextIsOwnRecord ==
    (TestDone /\ ret = "logged")
        => \/ /\ main.text.kind = "record"
              /\ main.text.test_id = test_id
              /\ (main.text.result = "Success" <=> all_success = 1)
           \/ main.text.kind = "error"

(***************************************************************************)
(* C18: "get" of an id that has no row prints the "No test record found"   *)
(* text and returns normally, unless the database could not be opened at   *)
(* all (prep or sqlite3_open/prepare failed); the table is left as the     *)
(* earlier processes wrote it.                                             *)
(***************************************************************************)
C18_UnknownIdGivesSentinel ==
    (main.cmd = "get" /\ main.at = "done" /\ Matching(db, main.arg) = <<>>)
        => /\ \/ main.exit = "EXIT_SUCCESS" /\ main.text.kind = "no_record"
              \/ main.exit \in {"DB_ERROR", "SIGABRT"} /\ main.text.kind = "none"
           /\ db = HistRows

\* the table has rows, none with the id asked for
C18_Witness ==
    /\ main.cmd = "get"
    /\ main.at = "done"
    /\ db # <<>>
    /\ Matching(db, main.arg) = <<>>
    /\ main.exit = "EXIT_SUCCESS"
    /\ main.text.kind = "no_record"

(***************************************************************************)
(* C19 (as claimed): a test invocation ends with EXIT_SUCCESS exactly when *)
(* its session ran to completion and was recorded.                         *)
(***************************************************************************)
C19_AbortsExitNonZero ==
    TestDone => (main.exit = "EXIT_SUCCESS" <=> ret = "logged")

(***************************************************************************)
(* C20 (as claimed): when opening the transport failed, no id was taken    *)
(* from the store, no datagram was sent and no receive was attempted.      *)
(***************************************************************************)
C20_NoUseAfterFailedOpen ==
    main.conn \in {"socket_failed", "host_failed"}
        => /\ ses.store = 0
           /\ ses.sendto = 0
           /\ ses.recvs = 0


(***************************************************************************)
(* Command lines, read without the parser: an option is a token that       *)
(* starts with '-' and is not the value of a -n before it.                 *)
(***************************************************************************)
OptionAt(argv, k) == StartsWithDash(argv[k]) /\ (k = 1 \/ argv[k - 1] # T_n)

\* the token asks for the peripheral of letter l: --all, or a stack holding l
Asks(tok, l) ==
    \/ tok = T_all
    \/ /\ Len(tok) > 1
       /\ tok[2] # "-"
       /\ \E j \in 2..Len(tok) : tok[j] = l

\* how many options of the command line ask for the peripheral of letter l
Requests(argv, l) ==
    Cardinality({ k \in 1..Len(argv) : OptionAt(argv, k) /\ Asks(argv[k], l) })

\* how many -n options the command line holds
NOptions(argv) ==
    Cardinality({ k \in 1..Len(argv) : OptionAt(argv, k) /\ argv[k] = T_n })

\* main has called the orchestrator
Invoked == cli.st = "done" /\ cli.exit = "invoke"

(***************************************************************************)
(* C21 (as claimed): the orchestrator is called only with a non-zero mask  *)
(* and an iteration count in 0..255, and never for a command line that     *)
(* asks for a peripheral more than once (a repeated letter, or a letter    *)
(* together with --all in either order) or that repeats -n.                *)
(***************************************************************************)
C21_OnlyValidInvocations ==
    Invoked
        => /\ cli.flags # 0
           /\ cli.n_arg \in 0..255
           /\ \A l \in {"u", "s", "i"} : Requests(cli.argv, l) <= 1
           /\ NOptions(cli.argv) <= 1

(***************************************************************************)
(* C22 (as claimed): every datagram the bridge sends toward the controller *)
(* is exactly the IN_MSG_SIZE bytes of one result, in order: no two        *)
(* results in one datagram, no result spread over two.                     *)
(***************************************************************************)
C22_OneDatagramPerResult ==
    bridge.st = "on"
        => \A d \in 1..Len(bridge.out) :
              \E r \in 1..bridge.k :
                 bridge.out[d] = [b \in 1..IN_MSG_SIZE |-> <<r, b>>]

(***************************************************************************)
(* Receives of the session's listeners                                     *)
(***************************************************************************)
\* listeners whose recvfrom has returned, with a datagram or with an error
ReturnedListeners == { i \in 1..Len(threads) : threads[i].st = "returned" }

\* listeners whose recvfrom took a datagram off the socket
ServedListeners ==
    { i \in 1..Len(threads) : threads[i].st = "returned" /\ threads[i].dlen > 0 }

(***************************************************************************)
(* C23: there is no timeout.  A listener returns only from a recvfrom that *)
(* returned, with a datagram or with an error; and while fewer than k      *)
(* listeners have returned the verdict is not computed, runTests has not   *)
(* returned and no record is persisted.                                    *)
(***************************************************************************)
C23_BlocksUntilReceived ==
    flags # 0 =>
        /\ \A i \in ReturnedListeners : threads[i].dlen > 0 \/ threads[i].n < 0
        /\ \A i \in 1..Len(threads) :
              (threads[i].n < 0 /\ variant = "c") => threads[i].st = "exit"
        /\ Cardinality(ReturnedListeners) < PopCount(flags)
              => /\ ~NetworkPhaseDone
                 /\ db = <<>>

\* two listeners, one served, the other blocked in recvfrom on an empty
\* socket, the caller waiting in the join loop
C23_Witness ==
    /\ variant = "cpp"
    /\ PopCount(flags) = 2
    /\ pc = "join"
    /\ sockq = <<>>
    /\ \E i, j \in 1..Len(threads) :
         /\ threads[i].st = "returned" /\ threads[i].dlen = IN_MSG_SIZE
         /\ threads[j].st = "recvfrom"

\* C23 as claimed: with fewer than k datagrams delivered the session never
\* reaches the verdict, and no listener completes without a datagram
C23_AsClaimed ==
    flags # 0 =>
        /\ \A i \in ReturnedListeners : threads[i].dlen > 0
        /\ Cardinality(ServedListeners) < PopCount(flags) => ~NetworkPhaseDone

(***************************************************************************)
(* C24: within a session the one sendto has returned, with every byte      *)
(* transmitted, before the first listener exists; no receive is made       *)
(* before that and no sendto after it.                                     *)
(***************************************************************************)
C24_SendBeforeReceive ==
    /\ ses.sendto <= 1
    /\ pc \in {"getid", "init", "send"} => threads = <<>> /\ ses.recvs = 0
    /\ (threads # <<>> \/ ses.recvs > 0)
          => /\ ses.sendto = 1
             /\ ses.sendres = "full"
             /\ Len(sent) = 1

\* the C variant: the command is out, both listeners exist, one has received
C24_Witness ==
    /\ variant = "c"
    /\ pc = "wait"
    /\ Len(threads) = 2
    /\ ses.sendto = 1
    /\ Len(sent) = 1
    /\ ses.recvs = 1

(***************************************************************************)
(* Slots and the listeners that own them                                   *)
(***************************************************************************)
\* some listener has been started and has not returned
ListenerRunning == \E i \in 1..Len(threads) : threads[i].st = "recvfrom"

\* the slots (1-based) whose result or message differs between two states
ChangedSlots(res1, res2, msgs1, msgs2) ==
    { j \in 1..Len(res1) : res1[j] # res2[j] \/ msgs1[j] # msgs2[j] }

\* the indices the listeners were started with are pairwise distinct and all
\* within 0 .. k-1
DistinctIndices ==
    /\ \A i \in 1..Len(threads) : threads[i].idx \in 0..(PopCount(flags) - 1)
    /\ \A i, j \in 1..Len(threads) : threads[i].idx = threads[j].idx => i = j

\* a step taken while a listener is running keeps the length of both arrays
\* and changes no slot but that of the one listener that returns in it
OwnSlotStep ==
    ListenerRunning =>
        /\ Len(results') = Len(results)
        /\ Len(inMsgs') = Len(inMsgs)
        /\ \A j \in ChangedSlots(results, results', inMsgs, inMsgs') :
              \E i \in 1..Len(threads) :
                 /\ threads[i].st = "recvfrom"
                 /\ threads'[i].st = "returned"
                 /\ threads[i].idx + 1 = j
                 /\ \A o \in 1..Len(threads) : o # i => threads'[o] = threads[o]

(***************************************************************************)
(* C25: listener i writes only slot i of results and inMsgs and leaves     *)
(* every other slot unchanged; the indices given to the k listeners are    *)
(* pairwise distinct and within 0 .. k-1; neither array changes its length *)
(* while a listener is running.                                            *)
(***************************************************************************)
C25_OwnSlotOnly == []DistinctIndices /\ [][OwnSlotStep]_vars

\* three listeners; the second has returned with a success written to its
\* slot while the first and third still block and their slots are untouched
C25_Witness ==
    /\ Len(threads) = 3
    /\ threads[1].st = "recvfrom"
    /\ threads[2].st = "returned"
    /\ threads[3].st = "recvfrom"
    /\ results = <<0, 1, 0>>
    /\ inMsgs[1] = ZeroInMsg
    /\ inMsgs[3] = ZeroInMsg

(***************************************************************************)
(* C26 (as claimed): the start timestamp is taken after the sendto of the  *)
(* session has returned with every byte transmitted, and before the first  *)
(* listener exists; a session whose send fails takes none.                 *)
(***************************************************************************)
C26_StartAfterSend ==
    /\ ses.start # -1 => ses.start = 1
    /\ ret = "send_failed" => ses.start = -1
    /\ threads # <<>> => ses.start # -1

(***************************************************************************)
(* The slots of the current session                                        *)
(***************************************************************************)
\* the number of listener slots: the size of the vectors (C++), the part
\* 0 .. n_threads-1 of the fixed arrays that the session uses (C)
Slots == IF variant = "cpp" THEN Len(results) ELSE n_threads

\* the caller is at or past the creation of the listeners
SlotsInUse == pc \in {"spawn", "wait", "join"} \/ NetworkPhaseDone

\* slot i (1-based) was written by a listener of the current session from a
\* datagram recvfrom reported as IN_MSG_SIZE bytes
WrittenThisSession(i) ==
    \E t \in 1..Len(threads) :
       /\ threads[t].idx + 1 = i
       /\ threads[t].st = "returned"
       /\ threads[t].n = IN_MSG_SIZE

(***************************************************************************)
(* C27: from the creation of the listeners on, the number of slots is the  *)
(* number of UART, SPI and I2C bits of the mask; while the listeners are   *)
(* being created and none has received, every slot holds Failure, also in  *)
(* a second call on the same object; a slot holds Success only when a      *)
(* listener of the current session wrote it.                               *)
(***************************************************************************)
C27_SlotsFreshAtSpawn ==
    SlotsInUse =>
        /\ Slots = PopCount(flags)
        /\ variant = "cpp" => Len(inMsgs) = PopCount(flags)
        /\ (pc = "spawn" /\ ses.recvs = 0)
              => \A i \in 1..Slots : results[i] = 0 /\ inMsgs[i] = ZeroInMsg
        /\ \A i \in 1..Slots : results[i] = 1 => WrittenThisSession(i)

\* the second call on the same object, about to create its two listeners,
\* after a first call that was recorded as success
C27_Witness ==
    /\ variant = "cpp"
    /\ Len(hist) = 1
    /\ hist[1].logged
    /\ hist[1].result
    /\ pc = "spawn"
    /\ threads = <<>>
    /\ results = <<0, 0>>

(***************************************************************************)
(* What the join-all variant (C++) makes of a datagram of dlen bytes: the  *)
(* byte count its recvfrom reports, -1 when no datagram was taken          *)
(***************************************************************************)
JoinAllRecv(dlen) == IF dlen = 0 THEN -1 ELSE RecvLen(dlen, IN_MSG_SIZE)

(***************************************************************************)
(* C28 (as claimed): the semaphore barrier of the C variant and the join   *)
(* loop of the C++ variant behave alike.  In both the verdict comes only   *)
(* after all k receivers are done, and a receiver that was handed a given  *)
(* datagram (or a failed receive) ends in both as it does in the join-all  *)
(* variant: it returns, its slot is Success exactly when the datagram was  *)
(* accepted with outcome 0x01, and the session goes on to its verdict.     *)
(***************************************************************************)
C28_SameAsJoinAll ==
    /\ NetworkPhaseDone
          => /\ Len(threads) = PopCount(flags)
             /\ \A i \in 1..Len(threads) : threads[i].st = "returned"
    /\ \A i \in 1..Len(threads) :
          threads[i].st # "recvfrom"
             => /\ threads[i].st = "returned"
                /\ threads[i].n = JoinAllRecv(threads[i].dlen)
                /\ results[threads[i].idx + 1] =
                      (IF RecvOk(JoinAllRecv(threads[i].dlen))
                          THEN IsSuccess(inMsgs[threads[i].idx + 1].test_result)
                          ELSE 0)

(***************************************************************************)
(* C29: computing the verdict leaves every slot as it was, and computing   *)
(* it again over the slots as the first computation left them gives the    *)
(* same overallResult.                                                     *)
(***************************************************************************)
\* the slots the verdict loop goes over
VerdictSlots(res) == IF variant = "cpp" THEN res ELSE SubSeq(res, 1, n_threads)

\* the step that computes the verdict
VerdictStep ==
    (pc = "verdict" /\ pc' = "log")
        => /\ results' = results
           /\ inMsgs' = inMsgs
           /\ all_success' = AllSuccess(VerdictSlots(results))
           /\ AllSuccess(VerdictSlots(results')) = all_success'

C29_VerdictIdempotent == [][VerdictStep]_vars

\* the verdict was computed over two slots holding Success, which still do
C29_Witness ==
    /\ pc = "log"
    /\ Len(threads) = 2
    /\ VerdictSlots(results) = <<1, 1>>
    /\ all_success = 1

(***************************************************************************)
(* C30 (as claimed): the text strLast returns after a call of runTests is  *)
(* the rendering of the record of that call's session, or the error or     *)
(* no-record text when that call produced no record; after a call that     *)
(* ended on a failed id allocation it is never a record.                   *)
(***************************************************************************)
C30_TextIsOfLastCall ==
    TestDone
        => /\ main.text.kind = "record"
                 => ret = "logged" /\ main.text.test_id = test_id
           /\ ret = "no_id" => main.text.kind \in {"none", "error", "no_record"}

(***************************************************************************)
(* C31: in the C++ variant, once the command is sent and as long as        *)
(* datagrams keep being delivered, under fair scheduling every listener    *)
(* returns, all are joined and runTests gets through persistence and       *)
(* returns; a step that takes a datagram off the socket takes exactly one  *)
(* and makes exactly one listener return with it.                          *)
(***************************************************************************)
\* sendOutMsg has returned: the command went out in full
CommandSent == variant = "cpp" /\ ret = "running" /\ ses.sendres = "full"

\* runTests has returned after the persistence step, every listener joined
SessionReturned ==
    /\ pc = "idle"
    /\ ret \in {"logged", "log_failed"}
    /\ joined = Len(threads)
    /\ Len(threads) = PopCount(flags)
    /\ \A i \in 1..Len(threads) : threads[i].st = "returned"

\* a step that shortens the receive queue
ConsumeStep ==
    Len(sockq') < Len(sockq)
        => /\ sockq' = Tail(sockq)
           /\ \E i \in 1..Len(threads) :
                 /\ threads[i].st = "recvfrom"
                 /\ threads'[i].st = "returned"
                 /\ threads'[i].dlen = Head(sockq)
                 /\ \A o \in 1..Len(threads) : o # i => threads'[o] = threads[o]

C31_SessionCompletes == (CommandSent ~> SessionReturned) /\ [][ConsumeStep]_vars

\* a session with two listeners has returned; one of them had taken a
\* datagram of the wrong length
C31_Witness ==
    /\ SessionReturned
    /\ Len(threads) = 2
    /\ threads[1].dlen = IN_MSG_SIZE
    /\ threads[2].dlen = IN_MSG_SIZE - 1

(***************************************************************************)
(* C32: whenever runTests of the C++ variant is not executing (it has      *)
(* returned normally, returned early because no id could be allocated, or  *)
(* was left by the exception of sendOutMsg), every listener thread in the  *)
(* thread list has returned and been joined; threads.clear() at the start  *)
(* of the next call is taken from such a state.                            *)
(***************************************************************************)
\* the ways runTests leaves
LeftRunTests == pc = "idle" /\ ret \in {"logged", "log_failed", "no_id", "send_failed"}

C32_NoListenerLeftBehind ==
    (variant = "cpp" /\ pc = "idle")
        => /\ \A i \in 1..Len(threads) : threads[i].st = "returned"
           /\ LeftRunTests => joined = Len(threads)

\* a second call on the same instance is about to clear a list of two
\* listeners of the call before
C32_Witness ==
    /\ variant = "cpp"
    /\ pc = "idle"
    /\ ret = "none"
    /\ Len(hist) = 1
    /\ Len(threads) = 2

(***************************************************************************)
(* C33: in the firmware's event handler s_retry_num never exceeds          *)
(* EXAMPLE_ESP_MAXIMUM_RETRY; a disconnect event starts a reconnect        *)
(* attempt and increments the counter exactly when the counter is below    *)
(* the maximum; WIFI_FAIL_BIT becomes set only in the handling of a        *)
(* disconnect event that finds 5 reconnect attempts made since the last    *)
(* got-IP event; a got-IP event sets the counter to 0 and sets             *)
(* WIFI_CONNECTED_BIT.                                                     *)
(***************************************************************************)
\* the step is the handler taking event ev off the loop
Handles(ev) ==
    /\ wifi.events # <<>>
    /\ Head(wifi.events) = ev
    /\ wifi'.events = Tail(wifi.events)

RetryBounded == wifi.st = "on" => wifi.s_retry_num \in 0..EXAMPLE_ESP_MAXIMUM_RETRY

DisconnectStep ==
    Handles("WIFI_EVENT_STA_DISCONNECTED") =>
        IF wifi.s_retry_num < EXAMPLE_ESP_MAXIMUM_RETRY
           THEN /\ wifi'.s_retry_num = wifi.s_retry_num + 1
                /\ wifi'.attempts = wifi.attempts + 1
                /\ wifi'.drv = "connecting"
                /\ wifi'.bits = wifi.bits
           ELSE /\ wifi'.s_retry_num = wifi.s_retry_num
                /\ wifi'.attempts = wifi.attempts
                /\ wifi'.drv = wifi.drv
                /\ HasBit(wifi'.bits, WIFI_FAIL_BIT)

FailBitStep ==
    (wifi.st = "on" /\ ~HasBit(wifi.bits, WIFI_FAIL_BIT) /\ HasBit(wifi'.bits, WIFI_FAIL_BIT))
        => /\ Handles("WIFI_EVENT_STA_DISCONNECTED")
           /\ wifi.attempts = EXAMPLE_ESP_MAXIMUM_RETRY

GotIpStep ==
    Handles("IP_EVENT_STA_GOT_IP") =>
        /\ wifi'.s_retry_num = 0
        /\ HasBit(wifi'.bits, WIFI_CONNECTED_BIT)

C33_RetryCounter ==
    /\ []RetryBounded
    /\ [][DisconnectStep /\ FailBitStep /\ GotIpStep]_vars

\* the station had reconnected after failures, lost the connection again and
\* used up its attempts: both bits are set, the counter is at its maximum
C33_Witness ==
    /\ wifi.st = "on"
    /\ wifi.s_retry_num = EXAMPLE_ESP_MAXIMUM_RETRY
    /\ HasBit(wifi.bits, WIFI_CONNECTED_BIT)
    /\ HasBit(wifi.bits, WIFI_FAIL_BIT)

(***************************************************************************)
(* C34: wifi_init_sta returns only once WIFI_CONNECTED_BIT or              *)
(* WIFI_FAIL_BIT is set; if every connect attempt ends in a disconnect     *)
(* event or a got-IP event it does return, and has a bit to return on by   *)
(* the time 6 consecutive disconnect events have been handled; the two     *)
(* bridge tasks are created only after it has returned, also when it       *)
(* returned on WIFI_FAIL_BIT alone.                                        *)
(***************************************************************************)
\* app_main is past its call of wifi_init_sta
WifiInitReturned == wifi.st = "on" /\ wifi.at \in {"uart_init", "xTaskCreate", "returned"}

ReturnedOnBit ==
    WifiInitReturned =>
        /\ HasBit(wifi.bitsRead, WIFI_CONNECTED_BIT) \/ HasBit(wifi.bitsRead, WIFI_FAIL_BIT)
        /\ HasBit(wifi.bits, WIFI_CONNECTED_BIT) \/ HasBit(wifi.bits, WIFI_FAIL_BIT)

SixDisconnectsAtMost ==
    wifi.st = "on" =>
        /\ wifi.disc <= EXAMPLE_ESP_MAXIMUM_RETRY + 1
        /\ wifi.disc = EXAMPLE_ESP_MAXIMUM_RETRY + 1 => HasBit(wifi.bits, WIFI_FAIL_BIT)

TasksAfterReturn ==
    (wifi.st = "on" /\ wifi.tasks # <<>>) => wifi.at \in {"xTaskCreate", "returned"}

C34_WifiInitReturns ==
    /\ [](ReturnedOnBit /\ SixDisconnectsAtMost /\ TasksAfterReturn)
    /\ (wifi.st = "on") ~> WifiInitReturned

\* six disconnect events in a row, wifi_init_sta returned on WIFI_FAIL_BIT
\* alone, and both tasks were created
C34_Witness ==
    /\ wifi.st = "on"
    /\ wifi.at = "returned"
    /\ wifi.bitsRead = WIFI_FAIL_BIT
    /\ wifi.disc = EXAMPLE_ESP_MAXIMUM_RETRY + 1
    /\ wifi.tasks = <<"rx_task", "udp_server_task">>

(***************************************************************************)
(* C35 (as claimed): what rx_task sends goes to the source address of the  *)
(* most recently received datagram: the address stored in                  *)
(* udp_remote_addr or, while a newer datagram is being recorded, the       *)
(* source address of that one.                                             *)
(***************************************************************************)
C35_SentToLatestSender ==
    fwd.st = "on"
        => \A d \in 1..Len(fwd.out) :
              fwd.out[d].to \in {fwd.out[d].stored, fwd.out[d].arriving}

\* the other parts of the claim: nothing is sent before a datagram was
\* received, udp_remote_known stays set, what was dropped is not sent, and
\* each datagram goes to the UART with the length recvfrom returned
C35_ForwardingRules ==
    fwd.st = "on"
        => /\ \A d \in 1..Len(fwd.out) : fwd.out[d].nrecv >= 1
           /\ fwd.udp_remote_known <=> fwd.uartTx # <<>>
           /\ \A d \in 1..Len(fwd.out) :
                 \A j \in 1..Len(fwd.out[d].data) : fwd.out[d].data[j] \notin fwd.dropped
           /\ \A j \in 1..Len(fwd.uartTx) : fwd.uartTx[j] \in {RecvLen(l, UDP_RX_BUF_SIZE - 1) : l \in UdpLens}
====
